---- MODULE Spec2Model ----
(***************************************************************************)
(* OHCA quality control: the time-reconciliation and metrics engine.       *)
(*                                                                         *)
(*   services/timeUtils   getOffsetMs, calculateCorrectedAedTime           *)
(*   PreviewModal         calculateMMSSSeconds, calculateInterruption,     *)
(*                        getSafeDuration                                  *)
(*   Interruption         calculateSeconds, calculateTotal                 *)
(*   PreviewModal         the compression times, manualCCF, overallCCF     *)
(*   TimeRecording        getValidationError                               *)
(*   App                  the load effect, the edit handlers, the tabs     *)
(*   PreviewModal         missingFields, handleSubmit / handleConfirm      *)
(*                                                                         *)
(* Every function of the engine is pure.  Each one is checked under a      *)
(* specification of its own, whose initial states draw the arguments from  *)
(* bounded sets and whose actions are the calls.  The application around   *)
(* the engine is checked under three more: SpecLoad (the state read from   *)
(* local storage), SpecSession (a case edited tab by tab and previewed)    *)
(* and SpecSubmit (the preview's submission to the collector).             *)
(***************************************************************************)
EXTENDS Integers, Sequences, FiniteSets, TLC

VARIABLES
    pc,            \* position of the computation under check
    keyTime,       \* TimeCalibration.keyTime of the observer being calibrated
    aedTime,       \* TimeCalibration.aedTime of the observer being calibrated
    offset,        \* the value getOffsetMs returned
    recordData,    \* data.timeRecords[key]: a string or {emt1, emt2, emt3}
    calibration,   \* data.calibration: emt1..emt3 -> {keyTime, aedTime}
    corrected,     \* the value calculateCorrectedAedTime returned
    start,         \* first argument of getSafeDuration
    end,           \* second argument of getSafeDuration
    duration,      \* the value getSafeDuration returned
    mmss,          \* argument of calculateMMSSSeconds / calculateSeconds
    seconds,       \* the value calculateMMSSSeconds returned
    items,         \* InterruptionItem[] given to calculateInterruption
    total,         \* the value calculateInterruption returned
    timeRecords,   \* data.timeRecords: one record per event
    interruptionRecords,  \* data.interruptionRecords: beforePads, beforeMcpr
    times,         \* the corrected instant of every event (times, correctedTimes)
    metrics,       \* what a render of PreviewModal computed
    fieldKey,      \* getValidationError: the event of the input under check
    subField,      \* getValidationError: its observer, "direct" for null
    validationError,  \* the value getValidationError returned
    basicInfo,     \* data.basicInfo: the fields the preview requires
    technicalInfo, \* data.technicalInfo: the fields the preview requires
    activeTab,     \* App: index of the tab whose component is mounted
    showPreview,   \* App: whether the PreviewModal is mounted
    correctedTimes,  \* TimeRecording: the useMemo cell of correctedTimes
    flags,         \* TimeRecording: the inputs the last render drew as errors
    saved,         \* what localStorage holds under 'ohca-app-state-v3'
    isSubmitting,  \* PreviewModal: state of the mounted instance
    isSuccess,     \* PreviewModal: state of the mounted instance
    errorMessage,  \* PreviewModal: state of the mounted instance
    instance,      \* how many PreviewModal instances were mounted so far
    requests       \* the fetch calls that have not settled yet

vars == <<pc, keyTime, aedTime, offset, recordData, calibration, corrected,
          start, end, duration, mmss, seconds, items, total,
          timeRecords, interruptionRecords, times, metrics,
          fieldKey, subField, validationError,
          basicInfo, technicalInfo, activeTab, showPreview, correctedTimes,
          flags, saved, isSubmitting, isSuccess, errorMessage, instance,
          requests>>

calibrationVars == <<keyTime, aedTime, offset>>
resolverVars    == <<recordData, calibration, corrected>>
durationVars    == <<start, end, duration>>
boundaryVars    == <<mmss, seconds>>
interruptionVars == <<items, total>>
metricsVars     == <<timeRecords, interruptionRecords, times, metrics>>
validatorVars   == <<fieldKey, subField, validationError>>
formVars        == <<basicInfo, technicalInfo>>
sessionVars     == <<activeTab, showPreview, correctedTimes, flags>>
storageVars     == <<saved>>
submitVars      == <<isSubmitting, isSuccess, errorMessage, instance, requests>>
appVars         == <<formVars, sessionVars, storageVars, submitVars>>

(***************************************************************************)
(* JavaScript values.                                                      *)
(*                                                                         *)
(* A number is Num(n), or NaN.  null is Null.  A Date object is modelled   *)
(* by its time value: Num(ms) for a valid Date, NaN for an Invalid Date.   *)
(* Pending marks a result variable that no call has written yet.           *)
(***************************************************************************)
Num(n)  == [t |-> "num", v |-> n]
NaN     == [t |-> "NaN", v |-> 0]
Null    == [t |-> "null", v |-> 0]
Pending == [t |-> "pending", v |-> 0]

IsNum(x) == x.t = "num"

\* a - b on numbers: NaN as soon as one operand is NaN
Minus(a, b) == IF IsNum(a) /\ IsNum(b) THEN Num(a.v - b.v) ELSE NaN

\* if (x) on number | null: null, NaN and 0 are falsy
Truthy(x) == IsNum(x) /\ x.v # 0

(***************************************************************************)
(* Timestamp strings.  The inputs write 'YYYY-MM-DDTHH:mm:ss'; the empty   *)
(* string means "not recorded", 'N/A' means "not performed".  Any other    *)
(* string does not parse.  A date is counted in days since 1970-01-01.     *)
(***************************************************************************)
EMPTY          == [tag |-> "empty", date |-> 0, hh |-> 0, mm |-> 0, ss |-> 0, ms |-> 0]
NOT_APPLICABLE == [tag |-> "N/A", date |-> 0, hh |-> 0, mm |-> 0, ss |-> 0, ms |-> 0]
UNPARSABLE     == [tag |-> "unparsable", date |-> 0, hh |-> 0, mm |-> 0, ss |-> 0, ms |-> 0]

\* 'YYYY-MM-DDTHH:mm:ss.SSS', which new Date reads as well
IsoMs(d, h, m, s, f) == [tag |-> "iso", date |-> d, hh |-> h, mm |-> m, ss |-> s, ms |-> f]

Iso(d, h, m, s) == IsoMs(d, h, m, s, 0)

\* new Date(str).getTime(): milliseconds since the epoch, NaN when str does
\* not parse
GetTime(str) ==
    IF str.tag = "iso"
    THEN Num((((str.date * 24 + str.hh) * 60 + str.mm) * 60 + str.ss) * 1000 + str.ms)
    ELSE NaN

(***************************************************************************)
(* Bounds of the argument sets.                                            *)
(***************************************************************************)
MaxDay   == 1      \* timestamps fall on the days 0 .. MaxDay
MaxLen   == 5      \* a boundary string has at most MaxLen characters
MaxItems == 3      \* an interval list has at most MaxItems entries

Days == 0 .. MaxDay

\* clock times <<hh, mm, ss>> the sampled timestamps carry
ClockSamples == { <<0, 0, 0>>, <<10, 0, 0>>, <<10, 0, 5>>, <<23, 59, 0>> }

IsoSamples == { Iso(d, c[1], c[2], c[3]) : d \in Days, c \in ClockSamples }

(***************************************************************************)
(* The variables a specification does not use keep these values.           *)
(***************************************************************************)
CalibrationIdle  == keyTime = EMPTY /\ aedTime = EMPTY /\ offset = Pending
ResolverIdle     == recordData = EMPTY /\ calibration = <<>> /\ corrected = Pending
DurationIdle     == start = Null /\ end = Null /\ duration = Pending
BoundaryIdle     == mmss = <<>> /\ seconds = Pending
InterruptionIdle == items = <<>> /\ total = Pending
MetricsIdle      == /\ timeRecords = <<>> /\ interruptionRecords = <<>>
                    /\ times = <<>> /\ metrics = <<>>
ValidatorIdle    == fieldKey = "" /\ subField = "" /\ validationError = FALSE
FormIdle         == basicInfo = <<>> /\ technicalInfo = <<>>
SessionIdle      == /\ activeTab = 0 /\ showPreview = FALSE
                    /\ correctedTimes = <<>> /\ flags = {}
StorageIdle      == saved = <<>>
SubmitIdle       == /\ isSubmitting = FALSE /\ isSuccess = FALSE
                    /\ errorMessage = "" /\ instance = 0 /\ requests = {}
AppIdle          == FormIdle /\ SessionIdle /\ StorageIdle /\ SubmitIdle

(***************************************************************************)
(* services/timeUtils: getOffsetMs                                         *)
(***************************************************************************)
\* the guard on empty sides left out: new Date('').getTime() is NaN
getOffsetMs_noGuard(key, aed) == Minus(GetTime(key), GetTime(aed))

\* the operands exchanged: aedTime - keyTime
getOffsetMs_swapped(key, aed) ==
    IF key = EMPTY \/ aed = EMPTY
    THEN Num(0)
    ELSE Minus(GetTime(aed), GetTime(key))

getOffsetMs(key, aed) ==
    IF key = EMPTY \/ aed = EMPTY
    THEN Num(0)
    ELSE Minus(GetTime(key), GetTime(aed))

(***************************************************************************)
(* SpecCalibration: TimeCalibration.renderRow computes one observer's      *)
(* offset from the pair currently stored for it.                           *)
(***************************************************************************)
CalibrationStrings == { EMPTY, UNPARSABLE } \cup IsoSamples

InitCalibration ==
    /\ pc = "getOffsetMs"
    /\ keyTime \in CalibrationStrings
    /\ aedTime \in CalibrationStrings
    /\ offset = Pending
    /\ ResolverIdle /\ DurationIdle /\ BoundaryIdle /\ InterruptionIdle
    /\ MetricsIdle /\ ValidatorIdle /\ AppIdle

renderRow ==
    /\ pc = "getOffsetMs"
    /\ offset' = getOffsetMs(keyTime, aedTime)
    /\ pc' = "done"
    /\ UNCHANGED <<keyTime, aedTime, resolverVars, durationVars,
                   boundaryVars, interruptionVars,
                   metricsVars, validatorVars, appVars>>

NextCalibration == renderRow

SpecCalibration == InitCalibration /\ [][NextCalibration]_vars

\* C3 as stated: the offset of a calibrated observer is keyTime - aedTime in
\* milliseconds, and the offset is null when either side is empty.
C3_OffsetNullWhenEmpty ==
    pc = "done" =>
        IF keyTime = EMPTY \/ aedTime = EMPTY
        THEN offset = Null
        ELSE offset = Minus(GetTime(keyTime), GetTime(aedTime))

\* C3 amended: the offset of a calibrated observer is keyTime - aedTime in
\* milliseconds, and the offset is the number 0, never null, when either side
\* is empty.
C3_OffsetZeroWhenEmpty ==
    pc = "done" =>
        /\ offset # Null
        /\ IF keyTime = EMPTY \/ aedTime = EMPTY
           THEN offset = Num(0)
           ELSE offset = Minus(GetTime(keyTime), GetTime(aedTime))

\* an observer with a key time and no reference time got the offset 0
C3_Witness ==
    /\ pc = "done"
    /\ keyTime.tag = "iso" /\ aedTime = EMPTY
    /\ offset = Num(0)

(***************************************************************************)
(* services/timeUtils: calculateCorrectedAedTime(recordKey, recordData,    *)
(* calibration).  The body never reads recordKey.  The Date it returns is  *)
(* modelled by its time value, null by Null.                               *)
(***************************************************************************)
\* typeof recordData === 'string'
IsString(rd) == "tag" \in DOMAIN rd

\* only observer 1's sentinel is looked at
AnyNotApplicable_emt1Only(rd) == rd.emt1 = NOT_APPLICABLE

\* emt1 === 'N/A' || emt2 === 'N/A' || emt3 === 'N/A'
AnyNotApplicable(rd) ==
    rd.emt1 = NOT_APPLICABLE \/ rd.emt2 = NOT_APPLICABLE \/ rd.emt3 = NOT_APPLICABLE

\* emt ? new Date(emt).getTime() : null
EmtTime(emt) == IF emt # EMPTY THEN GetTime(emt) ELSE Null

\* observer 2 is tried before observer 1
PriorityPick_emt2First(t1, o1, t2, o2, t3, o3) ==
    IF Truthy(t2) THEN Minus(t2, o2)
    ELSE IF Truthy(t1) THEN Minus(t1, o1)
    ELSE IF Truthy(t3) THEN Minus(t3, o3)
    ELSE Null

\* Priority: EMT1 -> EMT2 -> EMT3; adjusted AED time = entry time - offset
PriorityPick(t1, o1, t2, o2, t3, o3) ==
    IF Truthy(t1) THEN Minus(t1, o1)
    ELSE IF Truthy(t2) THEN Minus(t2, o2)
    ELSE IF Truthy(t3) THEN Minus(t3, o3)
    ELSE Null

\* the candidates of observers 2 and 3 read only while their inputs are
\* enabled, that is while their key time is set
calculateCorrectedAedTime_enabledOnly(rd, cal) ==
    IF IsString(rd)
    THEN IF rd = NOT_APPLICABLE THEN Null
         ELSE IF rd # EMPTY THEN GetTime(rd) ELSE Null
    ELSE IF AnyNotApplicable(rd)
         THEN Null
         ELSE PriorityPick(
                EmtTime(rd.emt1), getOffsetMs(cal.emt1.keyTime, cal.emt1.aedTime),
                IF cal.emt2.keyTime = EMPTY THEN Null ELSE EmtTime(rd.emt2),
                getOffsetMs(cal.emt2.keyTime, cal.emt2.aedTime),
                IF cal.emt3.keyTime = EMPTY THEN Null ELSE EmtTime(rd.emt3),
                getOffsetMs(cal.emt3.keyTime, cal.emt3.aedTime))

calculateCorrectedAedTime(rd, cal) ==
    IF IsString(rd)
    THEN IF rd = NOT_APPLICABLE THEN Null
         ELSE IF rd # EMPTY THEN GetTime(rd) ELSE Null
    ELSE IF AnyNotApplicable(rd)
         THEN Null
         ELSE PriorityPick(
                EmtTime(rd.emt1), getOffsetMs(cal.emt1.keyTime, cal.emt1.aedTime),
                EmtTime(rd.emt2), getOffsetMs(cal.emt2.keyTime, cal.emt2.aedTime),
                EmtTime(rd.emt3), getOffsetMs(cal.emt3.keyTime, cal.emt3.aedTime))

(***************************************************************************)
(* PreviewModal: getSafeDuration(start, end).  diff is kept in             *)
(* milliseconds until the final Math.floor, so that no fraction is lost:   *)
(* diff < -43200 seconds is diffMs < -43200 * 1000.                        *)
(***************************************************************************)
HalfDaySeconds == 43200
DaySeconds     == 86400

\* the day-rollover correction left out
getSafeDuration_noRollover(s, e) ==
    IF s = Null \/ e = Null
    THEN Null
    ELSE LET diffMs == Minus(e, s)
         IN  IF ~IsNum(diffMs) THEN NaN ELSE Num(diffMs.v \div 1000)

\* diff <= -43200 where diff < -43200 is written
getSafeDuration_inclusive(s, e) ==
    IF s = Null \/ e = Null
    THEN Null
    ELSE LET diffMs == Minus(e, s)
         IN  IF ~IsNum(diffMs)
             THEN NaN
             ELSE IF diffMs.v <= (-HalfDaySeconds) * 1000
                  THEN Num((diffMs.v + DaySeconds * 1000) \div 1000)
                  ELSE Num(diffMs.v \div 1000)

\* Math.ceil where Math.floor is written
getSafeDuration_ceil(s, e) ==
    IF s = Null \/ e = Null
    THEN Null
    ELSE LET diffMs == Minus(e, s)
         IN  IF ~IsNum(diffMs)
             THEN NaN
             ELSE IF diffMs.v < (-HalfDaySeconds) * 1000
                  THEN Num(-((-(diffMs.v + DaySeconds * 1000)) \div 1000))
                  ELSE Num(-((-diffMs.v) \div 1000))

\* an end before its start reported as no duration at all
getSafeDuration_orderedOnly(s, e) ==
    IF s = Null \/ e = Null
    THEN Null
    ELSE LET diffMs == Minus(e, s)
         IN  IF ~IsNum(diffMs)
             THEN NaN
             ELSE IF diffMs.v < (-HalfDaySeconds) * 1000
                  THEN Num((diffMs.v + DaySeconds * 1000) \div 1000)
                  ELSE IF diffMs.v < 0 THEN Null ELSE Num(diffMs.v \div 1000)

getSafeDuration(s, e) ==
    IF s = Null \/ e = Null
    THEN Null
    ELSE LET diffMs == Minus(e, s)
         IN  IF ~IsNum(diffMs)
             THEN NaN
             ELSE IF diffMs.v < (-HalfDaySeconds) * 1000
                  THEN Num((diffMs.v + DaySeconds * 1000) \div 1000)
                  ELSE Num(diffMs.v \div 1000)

(***************************************************************************)
(* SpecResolver: one time record is resolved against the calibration (getT *)
(* of PreviewModal's times); a direct record, resolved as AED-off, is then *)
(* the end point of totalDuration.                                         *)
(***************************************************************************)
\* what an observer's input, or a direct input, may hold
CandidateStrings ==
    { EMPTY, NOT_APPLICABLE, UNPARSABLE }
        \cup { Iso(d, c[1], c[2], c[3]) : d \in Days, c \in { <<0, 0, 0>>, <<10, 0, 0>> } }

MultiObserverRecords ==
    [emt1 : CandidateStrings, emt2 : CandidateStrings, emt3 : CandidateStrings]

KeySample == Iso(0, 10, 0, 5)
AedSample == Iso(0, 10, 0, 0)

\* unset, half set, key clock 5 s ahead of the AED, key clock 5 s behind
CalibrationPairs ==
    { [keyTime |-> EMPTY,     aedTime |-> EMPTY],
      [keyTime |-> KeySample, aedTime |-> EMPTY],
      [keyTime |-> EMPTY,     aedTime |-> AedSample],
      [keyTime |-> KeySample, aedTime |-> AedSample],
      [keyTime |-> AedSample, aedTime |-> KeySample] }

Calibrations == [emt1 : CalibrationPairs, emt2 : CalibrationPairs, emt3 : CalibrationPairs]

\* resolved judgment instants totalDuration may start from
JudgmentSamples == { Null, GetTime(Iso(0, 10, 0, 0)) }

InitResolver ==
    /\ pc = "getT"
    /\ recordData \in CandidateStrings \cup MultiObserverRecords
    /\ calibration \in Calibrations
    /\ corrected = Pending
    /\ CalibrationIdle /\ DurationIdle /\ BoundaryIdle /\ InterruptionIdle
    /\ MetricsIdle /\ ValidatorIdle /\ AppIdle

getT ==
    /\ pc = "getT"
    /\ corrected' = calculateCorrectedAedTime(recordData, calibration)
    /\ pc' = "resolved"
    /\ UNCHANGED <<recordData, calibration, calibrationVars, durationVars,
                   boundaryVars, interruptionVars,
                   metricsVars, validatorVars, appVars>>

totalDuration ==
    /\ pc = "resolved"
    /\ IsString(recordData)
    /\ \E ohca \in JudgmentSamples :
          /\ start' = ohca
          /\ end' = corrected
          /\ duration' = getSafeDuration(ohca, corrected)
    /\ pc' = "measured"
    /\ UNCHANGED <<resolverVars, calibrationVars, boundaryVars, interruptionVars,
                   metricsVars, validatorVars, appVars>>

NextResolver == getT \/ totalDuration

SpecResolver == InitResolver /\ [][NextResolver]_vars

IsMulti == ~IsString(recordData)
Resolved == pc \in {"resolved", "measured"}

\* the offset the calibration gives observer e
OffsetOf(e) == getOffsetMs(calibration[e].keyTime, calibration[e].aedTime)

Observers == { "emt1", "emt2", "emt3" }

\* the observers tried before e in the fixed order 1, 2, 3
Before(e) == CASE e = "emt1" -> {}
               [] e = "emt2" -> { "emt1" }
               [] e = "emt3" -> { "emt1", "emt2" }

\* what a claim expects of the result when observer e's candidate is the one
\* to use: its instant minus e's own offset; a candidate that has no instant
\* (it does not parse) may come back as null or as an Invalid Date
ExpectedFrom(e) ==
    IF IsNum(GetTime(recordData[e]))
    THEN corrected = Minus(GetTime(recordData[e]), OffsetOf(e))
    ELSE corrected \in { Null, NaN }

\* C1 as stated: whenever observer 1's candidate is non-empty and not N/A, the
\* resolver returns observer 1's instant minus observer 1's offset, whatever
\* observers 2 and 3 hold.
C1_Observer1Whatever23 ==
    (Resolved /\ IsMulti
        /\ recordData.emt1 # EMPTY /\ recordData.emt1 # NOT_APPLICABLE)
    => ExpectedFrom("emt1")

\* C1 amended: whenever observer 1's candidate is a timestamp (it parses, to a
\* time value other than 0) and neither observer 2 nor observer 3 carries N/A,
\* the resolver returns observer 1's instant minus observer 1's offset,
\* whatever else observers 2 and 3 hold.
C1_Observer1Priority ==
    (Resolved /\ IsMulti
        /\ Truthy(GetTime(recordData.emt1))
        /\ recordData.emt2 # NOT_APPLICABLE /\ recordData.emt3 # NOT_APPLICABLE)
    => /\ corrected = Minus(GetTime(recordData.emt1), OffsetOf("emt1"))
       /\ corrected # Null

\* observers 1 and 2 both entered a timestamp, with different offsets, and
\* observer 1's corrected instant was returned
C1_Witness ==
    /\ Resolved /\ IsMulti
    /\ Truthy(GetTime(recordData.emt1)) /\ Truthy(GetTime(recordData.emt2))
    /\ recordData.emt3 = EMPTY
    /\ OffsetOf("emt1") = Num(5000) /\ OffsetOf("emt2") = Num(-5000)
    /\ corrected = Num(GetTime(recordData.emt1).v - 5000)
    /\ corrected # Minus(GetTime(recordData.emt2), OffsetOf("emt2"))

\* C2: an N/A sentinel at any of the three observers makes the resolver return
\* null, whatever the other candidates and the calibration are.
C2_AnyNotApplicableIsNull ==
    (Resolved /\ IsMulti
        /\ \E e \in Observers : recordData[e] = NOT_APPLICABLE)
    => corrected = Null

\* N/A at observer 2 only, a timestamp at observer 1, and null was returned
C2_Witness ==
    /\ Resolved /\ IsMulti
    /\ Truthy(GetTime(recordData.emt1))
    /\ recordData.emt2 = NOT_APPLICABLE
    /\ recordData.emt3 # NOT_APPLICABLE
    /\ corrected = Null

\* C4 as stated: with no N/A candidate, the first observer in the order 1, 2, 3
\* whose candidate is non-empty wins, and the result is that candidate's
\* instant minus that observer's own offset; null when all three are empty.
C4_FirstNonEmptyWins ==
    (Resolved /\ IsMulti
        /\ \A e \in Observers : recordData[e] # NOT_APPLICABLE)
    => /\ \A e \in Observers :
            (/\ recordData[e] # EMPTY
             /\ \A b \in Before(e) : recordData[b] = EMPTY)
            => ExpectedFrom(e)
       /\ (\A e \in Observers : recordData[e] = EMPTY) => corrected = Null

\* the observer the resolver selects: the first whose time value is truthy
Selected(e) ==
    /\ Truthy(EmtTime(recordData[e]))
    /\ \A b \in Before(e) : ~Truthy(EmtTime(recordData[b]))

\* keyTime or aedTime empty
Incomplete(e) == calibration[e].keyTime = EMPTY \/ calibration[e].aedTime = EMPTY

\* C5: when the observer whose candidate is selected has an incomplete
\* calibration pair, the offset used is zero: the result is the raw candidate
\* instant, and it is not null.
C5_ZeroOffsetWhenUncalibrated ==
    (Resolved /\ IsMulti
        /\ \A e \in Observers : recordData[e] # NOT_APPLICABLE)
    => \A e \in Observers :
          (Selected(e) /\ Incomplete(e))
          => /\ corrected = GetTime(recordData[e])
             /\ corrected # Null

\* observer 2 wins with a key time and no reference time, while observer 1 is
\* fully calibrated: the raw instant of observer 2 was returned
C5_Witness ==
    /\ Resolved /\ IsMulti
    /\ recordData.emt1 = EMPTY /\ Selected("emt2")
    /\ calibration.emt2.keyTime # EMPTY /\ calibration.emt2.aedTime = EMPTY
    /\ OffsetOf("emt1") = Num(5000)
    /\ corrected = GetTime(recordData.emt2)

\* C6: a direct observation holding N/A, the empty string or an unparsable
\* string resolves to null, and the duration computed from it is null.
C6_DirectUnavailableIsNull ==
    (Resolved /\ IsString(recordData)
        /\ recordData \in { NOT_APPLICABLE, EMPTY, UNPARSABLE })
    => /\ corrected = Null
       /\ pc = "measured" => duration = Null

(***************************************************************************)
(* SpecDuration: getSafeDuration on two resolved instants.  An instant is  *)
(* what calculateCorrectedAedTime returns: null, an Invalid Date, or a     *)
(* Date whose time value is a whole number of seconds (every input writes  *)
(* HH:mm:ss).                                                              *)
(***************************************************************************)
\* clock times around midnight and twelve hours apart
DurationClocks == { <<0, 1, 0>>, <<12, 1, 0>>, <<12, 1, 1>>, <<23, 59, 0>> }

InstantSamples ==
    { Null, NaN }
        \cup { GetTime(Iso(d, c[1], c[2], c[3])) : d \in Days, c \in DurationClocks }

InitDuration ==
    /\ pc = "getSafeDuration"
    /\ start \in InstantSamples
    /\ end \in InstantSamples
    /\ duration = Pending
    /\ CalibrationIdle /\ ResolverIdle /\ BoundaryIdle /\ InterruptionIdle
    /\ MetricsIdle /\ ValidatorIdle /\ AppIdle

callGetSafeDuration ==
    /\ pc = "getSafeDuration"
    /\ duration' = getSafeDuration(start, end)
    /\ pc' = "done"
    /\ UNCHANGED <<start, end, calibrationVars, resolverVars, boundaryVars,
                   interruptionVars,
                   metricsVars, validatorVars, appVars>>

NextDuration == callGetSafeDuration

SpecDuration == InitDuration /\ [][NextDuration]_vars

\* end - start in seconds, for two valid instants
DiffSeconds == (end.v - start.v) \div 1000

\* C7: getSafeDuration is null when an end point is null; otherwise, with
\* d = end - start in seconds, it is d + 86400 exactly when d < -43200 and d
\* otherwise, so that 23:59:00 -> 00:01:00 on one date gives 120.
C7_SafeDurationRollover ==
    pc = "done" =>
        /\ (start = Null \/ end = Null) => duration = Null
        /\ (start # Null /\ end # Null /\ (start = NaN \/ end = NaN))
               => duration = NaN
        /\ (IsNum(start) /\ IsNum(end))
               => duration = Num(IF DiffSeconds < -43200
                                 THEN DiffSeconds + 86400
                                 ELSE DiffSeconds)
        /\ \A d \in Days :
              (start = GetTime(Iso(d, 23, 59, 0)) /\ end = GetTime(Iso(d, 0, 1, 0)))
              => duration = Num(120)

\* 23:59:00 -> 00:01:00 on day 0 was measured as 120 seconds
C7_Witness ==
    /\ pc = "done"
    /\ start = GetTime(Iso(0, 23, 59, 0))
    /\ end = GetTime(Iso(0, 0, 1, 0))
    /\ duration = Num(120)

\* C8: for two non-null instants with -43200 <= d < 0 seconds, -43200
\* included, getSafeDuration returns the negative d itself.
C8_NegativeReturnedUnchanged ==
    (pc = "done" /\ IsNum(start) /\ IsNum(end)
        /\ -43200 <= DiffSeconds /\ DiffSeconds < 0)
    => duration = Num(DiffSeconds) /\ duration.v < 0

\* an end exactly twelve hours before the start was measured as -43200
C8_Witness ==
    /\ pc = "done"
    /\ start = GetTime(Iso(0, 12, 1, 0))
    /\ end = GetTime(Iso(0, 0, 1, 0))
    /\ duration = Num(-43200)

(***************************************************************************)
(* Interval boundaries.  A boundary string is a sequence of characters.    *)
(***************************************************************************)
DigitValue ==
    [c \in { "0", "1", "2", "3", "4", "5", "6", "7", "8", "9" } |->
        CASE c = "0" -> 0 [] c = "1" -> 1 [] c = "2" -> 2 [] c = "3" -> 3
          [] c = "4" -> 4 [] c = "5" -> 5 [] c = "6" -> 6 [] c = "7" -> 7
          [] c = "8" -> 8 [] c = "9" -> 9]

IsDigit(c) == c \in DOMAIN DigitValue

RECURSIVE SkipWhiteSpace(_)
SkipWhiteSpace(str) ==
    IF str # <<>> /\ Head(str) = " " THEN SkipWhiteSpace(Tail(str)) ELSE str

RECURSIVE LeadingDigits(_, _)
LeadingDigits(str, acc) ==
    IF str = <<>> \/ ~IsDigit(Head(str))
    THEN acc
    ELSE LeadingDigits(Tail(str), acc * 10 + DigitValue[Head(str)])

\* parseInt(str, 10): leading white space is skipped, a sign is accepted, the
\* digits up to the first other character are read; NaN when there is none
parseInt(str) ==
    LET t == SkipWhiteSpace(str)
        signed == t # <<>> /\ Head(t) \in { "-", "+" }
        u == IF signed THEN Tail(t) ELSE t
    IN  IF u = <<>> \/ ~IsDigit(Head(u))
        THEN NaN
        ELSE IF signed /\ Head(t) = "-"
             THEN Num(-LeadingDigits(u, 0))
             ELSE Num(LeadingDigits(u, 0))

\* PreviewModal: calculateMMSSSeconds
calculateMMSSSeconds(str) ==
    IF str = <<>> \/ Len(str) # 4
    THEN Num(0)
    ELSE LET mins == parseInt(SubSeq(str, 1, 2))
             secs == parseInt(SubSeq(str, 3, 4))
         IN  IF mins = NaN \/ secs = NaN
             THEN Num(0)
             ELSE Num(mins.v * 60 + secs.v)

\* Interruption: calculateSeconds
calculateSeconds(str) ==
    IF str = <<>> \/ Len(str) # 4
    THEN Num(0)
    ELSE LET mins == parseInt(SubSeq(str, 1, 2))
             secs == parseInt(SubSeq(str, 3, 4))
         IN  IF mins = NaN \/ secs = NaN
             THEN Num(0)
             ELSE Num(mins.v * 60 + secs.v)

(***************************************************************************)
(* SpecBoundary: one boundary string is parsed, by the preview's parser or *)
(* by the interruption form's.                                             *)
(***************************************************************************)
Alphabet == { "0", "1", "5", "a", "-", " " }

BoundaryStrings == UNION { [1 .. n -> Alphabet] : n \in 0 .. MaxLen }

InitBoundary ==
    /\ pc = "parse"
    /\ mmss \in BoundaryStrings
    /\ seconds = Pending
    /\ CalibrationIdle /\ ResolverIdle /\ DurationIdle /\ InterruptionIdle
    /\ MetricsIdle /\ ValidatorIdle /\ AppIdle

callCalculateMMSSSeconds ==
    /\ pc = "parse"
    /\ seconds' = calculateMMSSSeconds(mmss)
    /\ pc' = "calculateMMSSSeconds"
    /\ UNCHANGED <<mmss, calibrationVars, resolverVars, durationVars,
                   interruptionVars,
                   metricsVars, validatorVars, appVars>>

callCalculateSeconds ==
    /\ pc = "parse"
    /\ seconds' = calculateSeconds(mmss)
    /\ pc' = "calculateSeconds"
    /\ UNCHANGED <<mmss, calibrationVars, resolverVars, durationVars,
                   interruptionVars,
                   metricsVars, validatorVars, appVars>>

NextBoundary == callCalculateMMSSSeconds \/ callCalculateSeconds

SpecBoundary == InitBoundary /\ [][NextBoundary]_vars

\* C10: a boundary is minutes * 60 + seconds when it is exactly four digit
\* characters, and 0 for every other string (empty, shorter, longer, or four
\* characters that are not all digits).
C10_FourDigitsOrZero ==
    pc \in { "calculateMMSSSeconds", "calculateSeconds" } =>
        IF Len(mmss) = 4 /\ \A i \in 1 .. 4 : IsDigit(mmss[i])
        THEN seconds = Num((DigitValue[mmss[1]] * 10 + DigitValue[mmss[2]]) * 60
                             + DigitValue[mmss[3]] * 10 + DigitValue[mmss[4]])
        ELSE seconds = Num(0)

(***************************************************************************)
(* PreviewModal: calculateInterruption; Interruption: calculateTotal.      *)
(* An InterruptionItem is modelled by its start and end; neither function  *)
(* reads id or reason.                                                     *)
(***************************************************************************)
\* every interval adds end - start, also when that is negative
RECURSIVE reduce_signed(_, _)
reduce_signed(list, acc) ==
    IF list = <<>>
    THEN acc
    ELSE LET startSec == calculateMMSSSeconds(Head(list).start).v
             endSec   == calculateMMSSSeconds(Head(list).end).v
         IN  reduce_signed(Tail(list), acc + (endSec - startSec))

calculateInterruption_signed(list) == Num(reduce_signed(list, 0))

\* items.reduce((acc, item) => acc + diff, 0)
RECURSIVE reduceInterruption(_, _)
reduceInterruption(list, acc) ==
    IF list = <<>>
    THEN acc
    ELSE LET startSec == calculateMMSSSeconds(Head(list).start).v
             endSec   == calculateMMSSSeconds(Head(list).end).v
             diff     == IF endSec > startSec THEN endSec - startSec ELSE 0
         IN  reduceInterruption(Tail(list), acc + diff)

calculateInterruption(list) == Num(reduceInterruption(list, 0))

\* items.reduce((acc, item) => endSec > startSec ? acc + (endSec - startSec) : acc, 0)
RECURSIVE reduceTotal(_, _)
reduceTotal(list, acc) ==
    IF list = <<>>
    THEN acc
    ELSE LET startSec == calculateSeconds(Head(list).start).v
             endSec   == calculateSeconds(Head(list).end).v
         IN  IF endSec > startSec
             THEN reduceTotal(Tail(list), acc + (endSec - startSec))
             ELSE reduceTotal(Tail(list), acc)

calculateTotal(list) == Num(reduceTotal(list, 0))

(***************************************************************************)
(* SpecInterruption: an interval list grows entry by entry; every render   *)
(* recomputes interruptionPads from the whole list.                        *)
(***************************************************************************)
Interval(s, e) == [start |-> s, end |-> e]

IntervalSamples ==
    { Interval(<<"1", "1", "0", "6">>, <<"1", "1", "3", "0">>),   \* 24 s
      Interval(<<"1", "2", "0", "0">>, <<"1", "1", "5", "0">>),   \* end < start
      Interval(<<"1", "1", "3", "0">>, <<"1", "1", "3", "0">>),   \* end = start
      Interval(<<>>, <<>>),                                       \* an empty slot
      Interval(<<"0", "0", "3", "0">>, <<"1", "0", "0">>),        \* end too short
      Interval(<<"-", "1", "-", "5">>, <<"0", "0", "0", "0">>) }  \* signed start

InitInterruption ==
    /\ pc = "render"
    /\ items = <<>>
    /\ total = calculateInterruption(items)
    /\ CalibrationIdle /\ ResolverIdle /\ DurationIdle /\ BoundaryIdle
    /\ MetricsIdle /\ ValidatorIdle /\ AppIdle

appendInterval ==
    /\ pc = "render"
    /\ Len(items) < MaxItems
    /\ \E item \in IntervalSamples :
          /\ items' = Append(items, item)
          /\ total' = calculateInterruption(items')
    /\ UNCHANGED <<pc, calibrationVars, resolverVars, durationVars, boundaryVars,
                   metricsVars, validatorVars, appVars>>

NextInterruption == appendInterval

SpecInterruption == InitInterruption /\ [][NextInterruption]_vars

\* what one interval contributes: end - start when end > start, else 0
Contribution(item) ==
    LET startSec == calculateMMSSSeconds(item.start).v
        endSec   == calculateMMSSSeconds(item.end).v
    IN  IF endSec > startSec THEN endSec - startSec ELSE 0

\* the sum of the contributions, taken from the last interval backwards
RECURSIVE SumOfContributions(_)
SumOfContributions(list) ==
    IF list = <<>>
    THEN 0
    ELSE Contribution(list[Len(list)])
            + SumOfContributions(SubSeq(list, 1, Len(list) - 1))

\* the interval a step has appended
Appended == items'[Len(items')]

\* C9: the interruption total is the sum of end - start over the intervals
\* with end > start; an interval with end <= start adds exactly 0, so the
\* total is never negative and appending an interval never decreases it; the
\* interruption form's total is the same number; 1106-1130 followed by
\* 1200-1150 totals 24.
C9_InterruptionTotal ==
    /\ [](/\ total = Num(SumOfContributions(items))
          /\ total.v >= 0
          /\ total = calculateTotal(items)
          /\ items = << Interval(<<"1", "1", "0", "6">>, <<"1", "1", "3", "0">>),
                        Interval(<<"1", "2", "0", "0">>, <<"1", "1", "5", "0">>) >>
                => total = Num(24))
    /\ [][/\ total'.v >= total.v
          /\ calculateMMSSSeconds(Appended.end).v
                 <= calculateMMSSSeconds(Appended.start).v
             => total' = total]_vars

\* 1106-1130 followed by 1200-1150 was totalled as 24 seconds
C9_Witness ==
    /\ items = << Interval(<<"1", "1", "0", "6">>, <<"1", "1", "3", "0">>),
                  Interval(<<"1", "2", "0", "0">>, <<"1", "1", "5", "0">>) >>
    /\ total = Num(24)

(***************************************************************************)
(* PreviewModal: the metrics of one render.  Two renderings of the preview *)
(* exist: components/PreviewModal.tsx, which reports the manual CCF with a *)
(* "time error" text, and the preview that also computes an overall CCF.   *)
(* A CCF text is a record: Percent(n) is the text of n tenths of a percent *)
(* ('83.3%' is Percent(833)), NotAvailable is 'N/A', TimeError is the text *)
(* the source writes for a denominator that is not positive.               *)
(***************************************************************************)
Percent(n)   == [t |-> "percent", v |-> n]
NaNPercent   == [t |-> "NaN%", v |-> 0]
NotAvailable == [t |-> "N/A", v |-> 0]
TimeError    == [t |-> "time error", v |-> 0]
NotPerformed == [t |-> "not performed", v |-> 0]
EmptyString  == [t |-> "", v |-> 0]

\* times: every event of the record resolved by calculateCorrectedAedTime
getTimes(tr, cal) ==
    [key \in DOMAIN tr |-> calculateCorrectedAedTime(tr[key], cal)]

\* data.timeRecords.<event>.emt1 === 'N/A'
isNA(rd) == rd.emt1 = NOT_APPLICABLE

\* the metric is null when the procedure is flagged, else the delay from the
\* judgment
delayUnlessNA(na, t, key) ==
    IF na THEN Null ELSE getSafeDuration(t.ohcaJudgment, t[key])

\* metrics.bvmTime / metrics.airwayTime of the payload
payloadDelay(delay, na) ==
    IF delay # Null THEN delay ELSE IF na THEN NotPerformed ELSE EmptyString

\* Time in Comp (Pre-AED): OHCA -> Pads minus the interruptions before pads
timeInCompPreAed(t, interruptionPads) ==
    LET durationOhcaToPads == getSafeDuration(t.ohcaJudgment, t.padsOn)
    IN  IF durationOhcaToPads # Null
        THEN Minus(durationOhcaToPads, interruptionPads)
        ELSE Null

\* the branch on isMcprNA left out: always Pads -> MCPR
durationPadsToMcpr_noBranch(t, isMcprNA) ==
    getSafeDuration(t.padsOn, t.mcprSetup)

\* Pads -> MCPR, or Pads -> AED Off when MCPR is N/A
durationPadsToMcpr(t, isMcprNA) ==
    IF isMcprNA
    THEN getSafeDuration(t.padsOn, t.aedOff)
    ELSE getSafeDuration(t.padsOn, t.mcprSetup)

\* Time in Comp (Pre-MCPR)
timeInCompPreMcpr(t, isMcprNA, interruptionMcpr) ==
    LET d == durationPadsToMcpr(t, isMcprNA)
    IN  IF d # Null THEN Minus(d, interruptionMcpr) ELSE Null

\* MCPR -> AED Off, null when MCPR is N/A
timeInCompPostMcpr(t, isMcprNA) ==
    IF isMcprNA THEN Null ELSE getSafeDuration(t.mcprSetup, t.aedOff)

\* the denominator of the manual CCF: OHCA -> MCPR, or OHCA -> AED Off
totalDurationManual(t, isMcprNA) ==
    IF isMcprNA
    THEN getSafeDuration(t.ohcaJudgment, t.aedOff)
    ELSE getSafeDuration(t.ohcaJudgment, t.mcprSetup)

\* the denominator of the overall CCF: Pads -> AED Off
totalDurationOverall(t) == getSafeDuration(t.padsOn, t.aedOff)

\* ((num / den) * 100).toFixed(1), den > 0, in tenths of a percent: the
\* tenths nearest to 1000 * num / den.  Exactly half way between two tenths
\* the double arithmetic decides, and both are possible.
ToFixed1(num, den) ==
    LET q == (1000 * num) \div den
    IN  { n \in (q - 1) .. (q + 1) :
            LET dist == n * den - 1000 * num
            IN  2 * (IF dist < 0 THEN -dist ELSE dist) <= den }

\* the text of (totalComp / den) * 100 for a positive den
PercentTexts(totalComp, den) ==
    IF IsNum(totalComp)
    THEN { Percent(n) : n \in ToFixed1(totalComp.v, den.v) }
    ELSE { NaNPercent }

\* a + b on numbers
Plus(a, b) == IF IsNum(a) /\ IsNum(b) THEN Num(a.v + b.v) ELSE NaN

\* the quotient truncated instead of rounded to the nearest tenth
manualCCF_truncated(preAed, preMcpr, totalDuration_) ==
    IF preAed # Null /\ preMcpr # Null /\ totalDuration_ # Null
          /\ IsNum(totalDuration_) /\ totalDuration_.v > 0
    THEN { Percent((1000 * Plus(preAed, preMcpr).v) \div totalDuration_.v) }
    ELSE IF totalDuration_ # Null /\ IsNum(totalDuration_) /\ totalDuration_.v <= 0
         THEN { TimeError }
         ELSE { NotAvailable }

\* a null compression time counted as 0
manualCCF_nullAsZero(preAed, preMcpr, totalDuration_) ==
    IF totalDuration_ # Null /\ IsNum(totalDuration_) /\ totalDuration_.v > 0
    THEN PercentTexts(Plus(IF preAed = Null THEN Num(0) ELSE preAed,
                           IF preMcpr = Null THEN Num(0) ELSE preMcpr),
                      totalDuration_)
    ELSE IF totalDuration_ # Null /\ IsNum(totalDuration_) /\ totalDuration_.v <= 0
         THEN { TimeError }
         ELSE { NotAvailable }

\* components/PreviewModal.tsx: manualCCF, the texts it may be
manualCCF(preAed, preMcpr, totalDuration_) ==
    IF preAed # Null /\ preMcpr # Null /\ totalDuration_ # Null
          /\ IsNum(totalDuration_) /\ totalDuration_.v > 0
    THEN PercentTexts(Plus(preAed, preMcpr), totalDuration_)
    ELSE IF totalDuration_ # Null /\ IsNum(totalDuration_) /\ totalDuration_.v <= 0
         THEN { TimeError }
         ELSE { NotAvailable }

\* the preview with an overall CCF: manualCCF stays 'N/A' unless the
\* denominator is positive
manualCCF_withOverall(preAed, preMcpr, totalDuration_) ==
    IF preAed # Null /\ preMcpr # Null /\ totalDuration_ # Null
          /\ IsNum(totalDuration_) /\ totalDuration_.v > 0
    THEN PercentTexts(Plus(preAed, preMcpr), totalDuration_)
    ELSE { NotAvailable }

\* the post-MCPR time left out of the numerator
overallCCF_preOnly(preMcpr, postMcpr, totalDuration_) ==
    IF totalDuration_ # Null /\ preMcpr # Null
          /\ IsNum(totalDuration_) /\ totalDuration_.v > 0
    THEN PercentTexts(preMcpr, totalDuration_)
    ELSE { NotAvailable }

\* the preview with an overall CCF: overallCCF
overallCCF(preMcpr, postMcpr, totalDuration_) ==
    IF totalDuration_ # Null /\ preMcpr # Null
          /\ IsNum(totalDuration_) /\ totalDuration_.v > 0
    THEN PercentTexts(IF postMcpr # Null THEN Plus(preMcpr, postMcpr) ELSE preMcpr,
                      totalDuration_)
    ELSE { NotAvailable }

(***************************************************************************)
(* SpecMetrics: a case record is previewed once, by either rendering.      *)
(* The record holds the events the CCF and the two suppressible delays     *)
(* read; observer 1 records them, observer 2 may flag a procedure as not   *)
(* performed; observer 1's clock is uncalibrated or 5 s ahead of the AED.  *)
(***************************************************************************)
NoObservation == [emt1 |-> EMPTY, emt2 |-> EMPTY, emt3 |-> EMPTY]

ByObservers(s1, s2) == [emt1 |-> s1, emt2 |-> s2, emt3 |-> EMPTY]

JudgmentStrings == { EMPTY, Iso(0, 10, 0, 0) }
PadsStrings     == { EMPTY, Iso(0, 10, 1, 0) }
McprStrings     == { EMPTY, NOT_APPLICABLE,
                     Iso(0, 10, 3, 0), Iso(0, 10, 0, 0), Iso(0, 9, 59, 0) }
AedOffStrings   == { EMPTY, UNPARSABLE, Iso(0, 10, 5, 0), Iso(0, 10, 0, 0) }
DelayStrings    == { EMPTY, NOT_APPLICABLE, Iso(0, 10, 2, 0) }
FlagStrings     == { EMPTY, NOT_APPLICABLE }

CaseRecord(j, p, v1, v2, m1, m2, a1, a2, off) ==
    [found            |-> NoObservation,
     contact          |-> NoObservation,
     ohcaJudgment     |-> ByObservers(j, EMPTY),
     cprStart         |-> NoObservation,
     powerOn          |-> EMPTY,
     padsOn           |-> ByObservers(p, EMPTY),
     firstVentilation |-> ByObservers(v1, v2),
     mcprSetup        |-> ByObservers(m1, m2),
     firstMed         |-> NoObservation,
     airway           |-> ByObservers(a1, a2),
     aedOff           |-> off,
     rosc             |-> NoObservation,
     firstShock       |-> EMPTY]

\* instants that are no whole number of seconds after the judgment
SubSecondPads   == { IsoMs(0, 10, 0, 0, 300), IsoMs(0, 10, 0, 10, 300) }
SubSecondMcpr   == { NOT_APPLICABLE, IsoMs(0, 10, 0, 0, 900),
                     IsoMs(0, 10, 0, 20, 600), IsoMs(0, 10, 0, 31, 200) }
SubSecondAedOff == { IsoMs(0, 10, 0, 0, 900), IsoMs(0, 10, 0, 31, 500) }

\* the records that vary the CCF's events, those that vary the two
\* suppressible delays, and those whose segments are no whole seconds
MetricsRecords ==
    { CaseRecord(j, p, EMPTY, EMPTY, m1, m2, EMPTY, EMPTY, off) :
        j \in JudgmentStrings, p \in PadsStrings,
        m1 \in McprStrings, m2 \in FlagStrings, off \in AedOffStrings }
    \cup
    { CaseRecord(j, Iso(0, 10, 1, 0), v1, v2, Iso(0, 10, 3, 0), EMPTY, a1, a2,
                 Iso(0, 10, 5, 0)) :
        j \in JudgmentStrings,
        v1 \in DelayStrings, v2 \in FlagStrings,
        a1 \in DelayStrings, a2 \in FlagStrings }
    \cup
    { CaseRecord(Iso(0, 10, 0, 0), p, EMPTY, EMPTY, m1, EMPTY, EMPTY, EMPTY, off) :
        p \in SubSecondPads, m1 \in SubSecondMcpr, off \in SubSecondAedOff }

Uncalibrated == [keyTime |-> EMPTY, aedTime |-> EMPTY]

Calibrated == [keyTime |-> KeySample, aedTime |-> AedSample]

\* observer 2 is calibrated, so that its inputs are enabled
MetricsCalibrations ==
    { [emt1 |-> c, emt2 |-> Calibrated, emt3 |-> Uncalibrated] :
      c \in { Uncalibrated, Calibrated } }

\* an empty slot, or one interruption of the given length
EmptySlot == Interval(<<>>, <<>>)
TenSeconds == Interval(<<"1", "0", "0", "0">>, <<"1", "0", "1", "0">>)
TwentySeconds == Interval(<<"1", "0", "3", "0">>, <<"1", "0", "5", "0">>)

InterruptionSamples ==
    { [beforePads |-> <<a>>, beforeMcpr |-> <<b>>] :
      a \in { EmptySlot, TenSeconds }, b \in { EmptySlot, TwentySeconds } }

InitMetrics ==
    /\ pc = "preview"
    /\ timeRecords \in MetricsRecords
    /\ calibration \in MetricsCalibrations
    /\ interruptionRecords \in InterruptionSamples
    /\ times = <<>>
    /\ metrics = <<>>
    /\ recordData = EMPTY /\ corrected = Pending
    /\ CalibrationIdle /\ DurationIdle /\ BoundaryIdle /\ InterruptionIdle
    /\ ValidatorIdle /\ AppIdle

\* one render of components/PreviewModal.tsx
PreviewModal ==
    /\ pc = "preview"
    /\ LET t == getTimes(timeRecords, calibration)
           interruptionPads == calculateInterruption(interruptionRecords.beforePads)
           interruptionMcpr == calculateInterruption(interruptionRecords.beforeMcpr)
           isMcprNA == isNA(timeRecords.mcprSetup)
           isVentNA == isNA(timeRecords.firstVentilation)
           isAirwayNA == isNA(timeRecords.airway)
           bvmTime == delayUnlessNA(isVentNA, t, "firstVentilation")
           airwayTime == delayUnlessNA(isAirwayNA, t, "airway")
           preAed == timeInCompPreAed(t, interruptionPads)
           preMcpr == timeInCompPreMcpr(t, isMcprNA, interruptionMcpr)
           totalDuration_ == totalDurationManual(t, isMcprNA)
       IN  /\ times' = t
           /\ \E ccf \in manualCCF(preAed, preMcpr, totalDuration_) :
                 metrics' = [isMcprNA |-> isMcprNA,
                             isVentNA |-> isVentNA,
                             isAirwayNA |-> isAirwayNA,
                             bvmTime |-> payloadDelay(bvmTime, isVentNA),
                             airwayTime |-> payloadDelay(airwayTime, isAirwayNA),
                             interruptionPads |-> interruptionPads,
                             interruptionMcpr |-> interruptionMcpr,
                             timeInCompPreAed |-> preAed,
                             timeInCompPreMcpr |-> preMcpr,
                             timeInCompPostMcpr |-> Pending,
                             totalDuration |-> totalDuration_,
                             manualCCF |-> ccf,
                             overallCCF |-> Pending]
    /\ pc' = "PreviewModal"
    /\ UNCHANGED <<timeRecords, interruptionRecords, calibration, recordData,
                   corrected, calibrationVars, durationVars, boundaryVars,
                   interruptionVars, validatorVars, appVars>>

\* one render of the preview that computes an overall CCF
PreviewModal_withOverall ==
    /\ pc = "preview"
    /\ LET t == getTimes(timeRecords, calibration)
           interruptionPads == calculateInterruption(interruptionRecords.beforePads)
           interruptionMcpr == calculateInterruption(interruptionRecords.beforeMcpr)
           isMcprNA == isNA(timeRecords.mcprSetup)
           isVentNA == isNA(timeRecords.firstVentilation)
           isAirwayNA == isNA(timeRecords.airway)
           preAed == timeInCompPreAed(t, interruptionPads)
           preMcpr == timeInCompPreMcpr(t, isMcprNA, interruptionMcpr)
           postMcpr == timeInCompPostMcpr(t, isMcprNA)
           totalDuration_ == totalDurationManual(t, isMcprNA)
       IN  /\ times' = t
           /\ \E ccf \in manualCCF_withOverall(preAed, preMcpr, totalDuration_),
                 overall \in overallCCF(preMcpr, postMcpr, totalDurationOverall(t)) :
                 metrics' = [isMcprNA |-> isMcprNA,
                             isVentNA |-> isVentNA,
                             isAirwayNA |-> isAirwayNA,
                             bvmTime |-> Pending,
                             airwayTime |-> Pending,
                             interruptionPads |-> interruptionPads,
                             interruptionMcpr |-> interruptionMcpr,
                             timeInCompPreAed |-> preAed,
                             timeInCompPreMcpr |-> preMcpr,
                             timeInCompPostMcpr |-> postMcpr,
                             totalDuration |-> totalDuration_,
                             manualCCF |-> ccf,
                             overallCCF |-> overall]
    /\ pc' = "PreviewModal_withOverall"
    /\ UNCHANGED <<timeRecords, interruptionRecords, calibration, recordData,
                   corrected, calibrationVars, durationVars, boundaryVars,
                   interruptionVars, validatorVars, appVars>>

NextMetrics == PreviewModal \/ PreviewModal_withOverall

SpecMetrics == InitMetrics /\ [][NextMetrics]_vars

Previewed == pc \in { "PreviewModal", "PreviewModal_withOverall" }

\* the instant the compression before MCPR ends at: MCPR-setup, or AED-off
\* when observer 1 flagged MCPR as not performed
McprOrOff ==
    IF timeRecords.mcprSetup.emt1 = NOT_APPLICABLE
    THEN times.aedOff
    ELSE times.mcprSetup

Abs(n) == IF n < 0 THEN -n ELSE n

\* text is the percentage num / den to one decimal place
IsPercentOf(text, num, den) ==
    /\ text.t = "percent"
    /\ 2 * Abs(text.v * den - 1000 * num) <= den

TenOClock == GetTime(Iso(0, 10, 0, 0))

\* C11: the denominator of the manual CCF is getSafeDuration(judgment,
\* MCPR-setup), or getSafeDuration(judgment, AED-off) when MCPR is flagged not
\* performed; with both compression times known and the denominator positive
\* the manual CCF is (preAedComp + preMcprComp) / totalDuration * 100 to one
\* decimal place; judgment 10:00:00, pads 10:01:00, MCPR 10:03:00 with
\* interruptions of 10 s and 20 s give 83.3%.
C11_ManualCCF ==
    Previewed =>
        LET den == getSafeDuration(times.ohcaJudgment, McprOrOff)
            preAed == metrics.timeInCompPreAed
            preMcpr == metrics.timeInCompPreMcpr
        IN  /\ metrics.totalDuration = den
            /\ (IsNum(preAed) /\ IsNum(preMcpr) /\ IsNum(den) /\ den.v > 0)
                   => IsPercentOf(metrics.manualCCF, preAed.v + preMcpr.v, den.v)
            /\ (/\ times.ohcaJudgment = TenOClock
                /\ times.padsOn = Num(TenOClock.v + 60000)
                /\ times.mcprSetup = Num(TenOClock.v + 180000)
                /\ metrics.interruptionPads = Num(10)
                /\ metrics.interruptionMcpr = Num(20))
                   => /\ preAed = Num(50) /\ preMcpr = Num(100) /\ den = Num(180)
                      /\ metrics.manualCCF = Percent(833)

\* the example case was previewed and reported 83.3%
C11_Witness ==
    /\ pc = "PreviewModal"
    /\ times.ohcaJudgment = TenOClock
    /\ times.padsOn = Num(TenOClock.v + 60000)
    /\ times.mcprSetup = Num(TenOClock.v + 180000)
    /\ metrics.interruptionPads = Num(10)
    /\ metrics.interruptionMcpr = Num(20)
    /\ metrics.manualCCF = Percent(833)

\* the manual CCF has no value to report
ManualCCFUndefined ==
    \/ metrics.timeInCompPreAed = Null
    \/ metrics.timeInCompPreMcpr = Null
    \/ metrics.totalDuration = Null
    \/ (IsNum(metrics.totalDuration) /\ metrics.totalDuration.v <= 0)

\* C12 as stated: the manual CCF is 'N/A' whenever a compression time is
\* null, or totalDuration is null, or totalDuration <= 0.
C12_ManualCCFNotAvailable ==
    (Previewed /\ ManualCCFUndefined) => metrics.manualCCF = NotAvailable

\* C12 amended: whenever a compression time is null, or totalDuration is null,
\* or totalDuration <= 0, the manual CCF is no percentage.  In
\* components/PreviewModal.tsx it is the time-error text when totalDuration is
\* a number <= 0, whatever the compression times are, and 'N/A' otherwise; in
\* the preview with an overall CCF it is 'N/A'.
C12_ManualCCFNoPercentage ==
    (Previewed /\ ManualCCFUndefined) =>
        IF pc = "PreviewModal"
              /\ IsNum(metrics.totalDuration) /\ metrics.totalDuration.v <= 0
        THEN metrics.manualCCF = TimeError
        ELSE metrics.manualCCF = NotAvailable

\* pads were not recorded while judgment -> MCPR is positive: 'N/A'
C12_Witness ==
    /\ pc = "PreviewModal"
    /\ metrics.timeInCompPreAed = Null
    /\ IsNum(metrics.totalDuration) /\ metrics.totalDuration.v > 0
    /\ metrics.manualCCF = NotAvailable

\* C13: a denominator that is a number <= 0 is reported by a text that is no
\* percentage and differs from the text reported for insufficient data (a
\* null end point), for the manual CCF and for the overall CCF.
C13_DenominatorSentinelDistinct ==
    Previewed =>
        /\ (IsNum(metrics.totalDuration) /\ metrics.totalDuration.v <= 0)
               => metrics.manualCCF # NotAvailable
                    /\ metrics.manualCCF.t # "percent"
        /\ (pc = "PreviewModal_withOverall"
              /\ IsNum(totalDurationOverall(times))
              /\ totalDurationOverall(times).v <= 0)
               => metrics.overallCCF # NotAvailable
                    /\ metrics.overallCCF.t # "percent"

\* C14: the pre-MCPR compression time is getSafeDuration(pads, X) minus the
\* beforeMcpr interruption total, X being the MCPR-setup instant, or the
\* AED-off instant when observer 1's MCPR candidate is N/A; it is null exactly
\* when getSafeDuration(pads, X) is null.
C14_PreMcprCompression ==
    Previewed =>
        LET d == getSafeDuration(times.padsOn, McprOrOff)
        IN  /\ (metrics.timeInCompPreMcpr = Null) <=> (d = Null)
            /\ d # Null =>
                  metrics.timeInCompPreMcpr
                      = Minus(d, calculateInterruption(interruptionRecords.beforeMcpr))

\* MCPR flagged by observer 1: pads 10:01:00 -> AED-off 10:05:00 less 20 s
C14_Witness ==
    /\ Previewed
    /\ timeRecords.mcprSetup.emt1 = NOT_APPLICABLE
    /\ times.padsOn = Num(TenOClock.v + 60000)
    /\ times.aedOff = Num(TenOClock.v + 300000)
    /\ metrics.interruptionMcpr = Num(20)
    /\ metrics.timeInCompPreMcpr = Num(220)

\* C15: when any candidate of first ventilation (airway, MCPR-setup) is N/A
\* the resolver gives null, and the payload reports the not-performed marker
\* for the dependent delay (the MCPR-not-performed branch is taken), never an
\* empty, null or zero value.
C15_NotPerformedMarker ==
    pc = "PreviewModal" =>
        /\ AnyNotApplicable(timeRecords.firstVentilation)
               => times.firstVentilation = Null /\ metrics.bvmTime = NotPerformed
        /\ AnyNotApplicable(timeRecords.airway)
               => times.airway = Null /\ metrics.airwayTime = NotPerformed
        /\ AnyNotApplicable(timeRecords.mcprSetup)
               => times.mcprSetup = Null /\ metrics.isMcprNA

\* C16: the overall CCF is (preMcprComp + postMcprComp) / getSafeDuration(pads,
\* AED-off) * 100, postMcprComp being getSafeDuration(MCPR-setup, AED-off), and
\* null, adding nothing, when MCPR is not performed; it is 'N/A' when the
\* denominator is null or <= 0 or preMcprComp is null.
C16_OverallCCF ==
    pc = "PreviewModal_withOverall" =>
        LET den == getSafeDuration(times.padsOn, times.aedOff)
            preMcpr == metrics.timeInCompPreMcpr
            postMcpr == metrics.timeInCompPostMcpr
        IN  /\ postMcpr = IF timeRecords.mcprSetup.emt1 = NOT_APPLICABLE
                          THEN Null
                          ELSE getSafeDuration(times.mcprSetup, times.aedOff)
            /\ (den = Null \/ (IsNum(den) /\ den.v <= 0) \/ preMcpr = Null)
                   => metrics.overallCCF = NotAvailable
            /\ (IsNum(den) /\ den.v > 0 /\ IsNum(preMcpr))
                   => IsPercentOf(metrics.overallCCF,
                                  preMcpr.v + (IF postMcpr = Null THEN 0 ELSE postMcpr.v),
                                  den.v)

\* pads 10:01:00, MCPR 10:03:00, AED-off 10:05:00, 20 s interrupted: 91.7%
C16_Witness ==
    /\ pc = "PreviewModal_withOverall"
    /\ times.padsOn = Num(TenOClock.v + 60000)
    /\ times.mcprSetup = Num(TenOClock.v + 180000)
    /\ times.aedOff = Num(TenOClock.v + 300000)
    /\ metrics.timeInCompPreMcpr = Num(100)
    /\ metrics.timeInCompPostMcpr = Num(120)
    /\ metrics.overallCCF = Percent(917)

\* judgment < pads < X strictly, X being MCPR-setup, or AED-off when MCPR is
\* flagged, all within 12 hours, and each interruption total between 0 and the
\* duration of its own segment
OrderedSegments ==
    /\ IsNum(times.ohcaJudgment) /\ IsNum(times.padsOn) /\ IsNum(McprOrOff)
    /\ times.ohcaJudgment.v < times.padsOn.v
    /\ times.padsOn.v < McprOrOff.v
    /\ McprOrOff.v - times.ohcaJudgment.v <= HalfDaySeconds * 1000
    /\ metrics.interruptionPads.v >= 0
    /\ metrics.interruptionPads.v
           <= getSafeDuration(times.ohcaJudgment, times.padsOn).v
    /\ metrics.interruptionMcpr.v >= 0
    /\ metrics.interruptionMcpr.v <= getSafeDuration(times.padsOn, McprOrOff).v

\* the manual CCF is a percentage between 0.0% and 100.0%, and the two
\* compression times together do not exceed totalDuration
CCFWithinRange ==
    /\ metrics.manualCCF.t = "percent"
    /\ metrics.manualCCF.v >= 0 /\ metrics.manualCCF.v <= 1000
    /\ metrics.timeInCompPreAed.v + metrics.timeInCompPreMcpr.v
           <= metrics.totalDuration.v

\* C25 as stated: if judgment < pads < X strictly, all within 12 hours, and
\* each interruption total is between 0 and the duration of its segment, then
\* the manual CCF is a percentage between 0.0% and 100.0% inclusive, and
\* preAedComp + preMcprComp does not exceed totalDuration.
C25_ManualCCFWithinRange ==
    (Previewed /\ OrderedSegments) => CCFWithinRange

\* C25 amended: if moreover X is at least one second after the judgment, so
\* that totalDuration >= 1, the manual CCF is a percentage between 0.0% and
\* 100.0% inclusive; preAedComp + preMcprComp never exceeds totalDuration.
\* When X is less than a second after the judgment totalDuration is 0 and the
\* manual CCF is the time-error text of components/PreviewModal.tsx, 'N/A' in
\* the preview with an overall CCF.
C25_ManualCCFWithinRangeFromOneSecond ==
    (Previewed /\ OrderedSegments) =>
        /\ metrics.timeInCompPreAed.v + metrics.timeInCompPreMcpr.v
               <= metrics.totalDuration.v
        /\ IF McprOrOff.v - times.ohcaJudgment.v >= 1000
           THEN CCFWithinRange
           ELSE /\ metrics.totalDuration = Num(0)
                /\ metrics.manualCCF
                       = IF pc = "PreviewModal" THEN TimeError ELSE NotAvailable

\* pads 10.3 s and MCPR 20.6 s after the judgment, nothing interrupted: the
\* floored segments 10 and 10 fill the floored total of 20, 100.0%
C25_Witness ==
    /\ Previewed /\ OrderedSegments
    /\ times.padsOn.v - times.ohcaJudgment.v = 10300
    /\ times.mcprSetup = Num(times.ohcaJudgment.v + 20600)
    /\ metrics.timeInCompPreAed = Num(10)
    /\ metrics.timeInCompPreMcpr = Num(10)
    /\ metrics.totalDuration = Num(20)
    /\ metrics.manualCCF = Percent(1000)

(***************************************************************************)
(* TimeRecording: getValidationError(fieldKey, specificValue, subField).   *)
(* Two copies of the component exist: the one with the N/A buttons, and    *)
(* components/TimeRecording.tsx, which has no rule for airway and checks   *)
(* AED-off against MCPR-setup only.  subField null is written "direct".    *)
(***************************************************************************)
\* an incomplete calibration read as the offset 0, as the resolver reads it
currentCorrected_zeroOffset(specificValue, sub, cal) ==
    IF sub = "direct"
    THEN GetTime(specificValue)
    ELSE Minus(GetTime(specificValue),
               getOffsetMs(cal[sub].keyTime, cal[sub].aedTime))

\* the corrected instant of this specific input; Null stands for the early
\* return taken when the observer has no complete calibration
currentCorrected(specificValue, sub, cal) ==
    IF sub = "direct"
    THEN GetTime(specificValue)
    ELSE LET offset_ == cal[sub]
         IN  IF offset_.keyTime # EMPTY /\ offset_.aedTime # EMPTY
             THEN LET diff == Minus(GetTime(offset_.keyTime), GetTime(offset_.aedTime))
                  IN  Minus(GetTime(specificValue), diff)
             ELSE Null

\* a missing predecessor counted as a violation
isAfter_strict(cur, t, predecessorKey) ==
    LET pred == t[predecessorKey]
    IN  IF pred = Null THEN FALSE ELSE IsNum(pred) /\ cur.v > pred.v

\* an instant equal to the predecessor accepted
isAfter_orEqual(cur, t, predecessorKey) ==
    LET pred == t[predecessorKey]
    IN  IF pred = Null THEN TRUE ELSE IsNum(pred) /\ cur.v >= pred.v

isAfter(cur, t, predecessorKey) ==
    LET pred == t[predecessorKey]
    IN  IF pred = Null THEN TRUE ELSE IsNum(pred) /\ cur.v > pred.v

isBefore(cur, t, successorKey) ==
    LET succ == t[successorKey]
    IN  IF succ = Null THEN TRUE ELSE IsNum(succ) /\ cur.v < succ.v

\* a tolerance of 2000 ms
isEqual_wide(cur, t, targetKey) ==
    LET target == t[targetKey]
    IN  IF target = Null
        THEN TRUE
        ELSE IsNum(target) /\ Abs(cur.v - target.v) < 2000

isEqual(cur, t, targetKey) ==
    LET target == t[targetKey]
    IN  IF target = Null
        THEN TRUE
        ELSE IsNum(target) /\ Abs(cur.v - target.v) < 1000

\* AED-off checked against MCPR-setup alone
rules_noPadsFallback(key, cur, t) ==
    CASE key = "contact"          -> ~isAfter(cur, t, "found")
      [] key = "ohcaJudgment"     -> ~isAfter(cur, t, "contact")
      [] key = "cprStart"         -> ~isAfter(cur, t, "ohcaJudgment")
      [] key = "powerOn"          -> ~isAfter(cur, t, "ohcaJudgment")
      [] key = "padsOn"           -> ~isAfter(cur, t, "powerOn")
      [] key = "firstVentilation" -> ~isAfter(cur, t, "ohcaJudgment")
      [] key = "mcprSetup"        -> ~isAfter(cur, t, "cprStart")
      [] key = "firstMed"         -> ~isAfter(cur, t, "ohcaJudgment")
      [] key = "airway"           -> ~isAfter(cur, t, "ohcaJudgment")
      [] key = "aedOff"           -> ~isAfter(cur, t, "mcprSetup")
      [] key = "rosc"             -> ~isEqual(cur, t, "aedOff")
      [] key = "firstShock"       -> ~(isAfter(cur, t, "padsOn") /\ isBefore(cur, t, "aedOff"))
      [] OTHER                    -> FALSE

\* the switch on fieldKey of the component with the N/A buttons
rules(key, cur, t) ==
    CASE key = "contact"          -> ~isAfter(cur, t, "found")
      [] key = "ohcaJudgment"     -> ~isAfter(cur, t, "contact")
      [] key = "cprStart"         -> ~isAfter(cur, t, "ohcaJudgment")
      [] key = "powerOn"          -> ~isAfter(cur, t, "ohcaJudgment")
      [] key = "padsOn"           -> ~isAfter(cur, t, "powerOn")
      [] key = "firstVentilation" -> ~isAfter(cur, t, "ohcaJudgment")
      [] key = "mcprSetup"        -> ~isAfter(cur, t, "cprStart")
      [] key = "firstMed"         -> ~isAfter(cur, t, "ohcaJudgment")
      [] key = "airway"           -> ~isAfter(cur, t, "ohcaJudgment")
      [] key = "aedOff"           -> IF t.mcprSetup # Null
                                     THEN ~isAfter(cur, t, "mcprSetup")
                                     ELSE ~isAfter(cur, t, "padsOn")
      [] key = "rosc"             -> ~isEqual(cur, t, "aedOff")
      [] key = "firstShock"       -> ~(isAfter(cur, t, "padsOn") /\ isBefore(cur, t, "aedOff"))
      [] OTHER                    -> FALSE

\* the switch on fieldKey of components/TimeRecording.tsx
rules_tsx(key, cur, t) ==
    CASE key = "contact"          -> ~isAfter(cur, t, "found")
      [] key = "ohcaJudgment"     -> ~isAfter(cur, t, "contact")
      [] key = "cprStart"         -> ~isAfter(cur, t, "ohcaJudgment")
      [] key = "powerOn"          -> ~isAfter(cur, t, "ohcaJudgment")
      [] key = "padsOn"           -> ~isAfter(cur, t, "powerOn")
      [] key = "firstVentilation" -> ~isAfter(cur, t, "ohcaJudgment")
      [] key = "mcprSetup"        -> ~isAfter(cur, t, "cprStart")
      [] key = "firstMed"         -> ~isAfter(cur, t, "ohcaJudgment")
      [] key = "aedOff"           -> ~isAfter(cur, t, "mcprSetup")
      [] key = "rosc"             -> ~isEqual(cur, t, "aedOff")
      [] key = "firstShock"       -> ~(isAfter(cur, t, "padsOn") /\ isBefore(cur, t, "aedOff"))
      [] OTHER                    -> FALSE

\* the component with the N/A buttons
getValidationError(key, specificValue, sub, cal, t) ==
    IF specificValue = EMPTY \/ specificValue = NOT_APPLICABLE
    THEN FALSE
    ELSE LET cur == currentCorrected(specificValue, sub, cal)
         IN  IF cur = Null \/ ~IsNum(cur) THEN FALSE ELSE rules(key, cur, t)

\* components/TimeRecording.tsx
getValidationError_tsx(key, specificValue, sub, cal, t) ==
    IF specificValue = EMPTY
    THEN FALSE
    ELSE LET cur == currentCorrected(specificValue, sub, cal)
         IN  IF cur = Null \/ ~IsNum(cur) THEN FALSE ELSE rules_tsx(key, cur, t)

\* a distance of exactly 1000 ms counted as a mismatch
roscMismatch_inclusive(t) ==
    IF t.rosc # Null /\ t.aedOff # Null
    THEN IsNum(t.rosc) /\ IsNum(t.aedOff) /\ Abs(t.rosc.v - t.aedOff.v) >= 1000
    ELSE FALSE

\* the preview with an overall CCF: roscMismatch
roscMismatch(t) ==
    IF t.rosc # Null /\ t.aedOff # Null
    THEN IsNum(t.rosc) /\ IsNum(t.aedOff) /\ Abs(t.rosc.v - t.aedOff.v) > 1000
    ELSE FALSE

(***************************************************************************)
(* SpecValidator: one input of the time-recording form is validated        *)
(* against the corrected instants of the record it belongs to.  The record *)
(* holds the candidate under check and the events its rule reads; every    *)
(* other event is as in INITIAL_STATE.  Instants lie within 2 s of         *)
(* 10:00:00; ROSC candidates come to the millisecond around the AED-off    *)
(* sample.                                                                 *)
(***************************************************************************)
DirectKeys == { "powerOn", "aedOff", "firstShock" }

MultiKeys == { "found", "contact", "ohcaJudgment", "cprStart", "padsOn",
               "firstVentilation", "mcprSetup", "firstMed", "airway", "rosc" }

TimeRecordKeys == DirectKeys \cup MultiKeys

\* INITIAL_STATE.timeRecords
BlankRecords ==
    [key \in TimeRecordKeys |-> IF key \in DirectKeys THEN EMPTY ELSE NoObservation]

\* 10:00:00 plus k seconds, -60 < k < 60
At(k) == IF k >= 0 THEN Iso(0, 10, 0, k) ELSE Iso(0, 9, 59, 60 + k)

\* the events the rule of an event reads
RelatedKeys(key) ==
    CASE key = "contact"          -> { "found" }
      [] key = "ohcaJudgment"     -> { "contact" }
      [] key = "cprStart"         -> { "ohcaJudgment" }
      [] key = "powerOn"          -> { "ohcaJudgment" }
      [] key = "padsOn"           -> { "powerOn" }
      [] key = "firstVentilation" -> { "ohcaJudgment" }
      [] key = "mcprSetup"        -> { "cprStart" }
      [] key = "firstMed"         -> { "ohcaJudgment" }
      [] key = "airway"           -> { "ohcaJudgment" }
      [] key = "aedOff"           -> { "mcprSetup", "padsOn" }
      [] key = "rosc"             -> { "aedOff" }
      [] key = "firstShock"       -> { "padsOn", "aedOff" }
      [] OTHER                    -> {}

\* what a related event may hold: pads at 09:59:59, AED-off at 10:00:01, the
\* others at 10:00:00, each recorded by observer 1
RelatedValues(key) ==
    CASE key = "aedOff"    -> { EMPTY, At(1) }
      [] key = "powerOn"   -> { EMPTY, UNPARSABLE, At(0) }
      [] key = "padsOn"    -> { ByObservers(x, EMPTY) : x \in { EMPTY, At(-1) } }
      [] key = "mcprSetup" -> { ByObservers(x, y) :
                                  x \in { EMPTY, NOT_APPLICABLE, At(0) },
                                  y \in { EMPTY } }
      [] OTHER             -> { ByObservers(x, EMPTY) : x \in { EMPTY, At(0) } }

RelatedRecords(key) ==
    LET ks == RelatedKeys(key)
        choices == { g \in [ks -> UNION { RelatedValues(k) : k \in ks }] :
                       \A k \in ks : g[k] \in RelatedValues(k) }
    IN  { [k \in TimeRecordKeys |-> IF k \in ks THEN g[k] ELSE BlankRecords[k]] :
          g \in choices }

\* ROSC inputs 999, 1000 and 1001 ms before and after the AED-off sample
\* 10:00:01, as read by an observer with no offset and by one whose clock is
\* 1 s ahead
RoscValues ==
    { IsoMs(0, 9, 59, 59, 999), IsoMs(0, 10, 0, 0, 0),   IsoMs(0, 10, 0, 0, 1),
      IsoMs(0, 10, 0, 1, 999),  IsoMs(0, 10, 0, 2, 0),   IsoMs(0, 10, 0, 2, 1),
      IsoMs(0, 10, 0, 0, 999),  IsoMs(0, 10, 0, 1, 0),   IsoMs(0, 10, 0, 1, 1),
      IsoMs(0, 10, 0, 2, 999),  IsoMs(0, 10, 0, 3, 0),   IsoMs(0, 10, 0, 3, 1) }

\* what the input under check may hold
CandidateValues(key) ==
    { EMPTY, NOT_APPLICABLE, UNPARSABLE } \cup { At(k) : k \in -2 .. 2 }
        \cup IF key = "rosc" THEN RoscValues ELSE {}

\* the input, and the record of its event: a direct input, observer 1's
\* input, or observer 2's input next to an empty or filled observer 1
CandidateInputs(key) ==
    IF key \in DirectKeys
    THEN { [subField |-> "direct", record |-> c] : c \in CandidateValues(key) }
    ELSE { [subField |-> "emt1", record |-> ByObservers(c, EMPTY)] :
             c \in CandidateValues(key) }
         \cup { [subField |-> "emt2", record |-> ByObservers(x, c)] :
                  c \in CandidateValues(key), x \in { EMPTY, At(2) } }

OneSecondAhead == [keyTime |-> At(1), aedTime |-> At(0)]
KeyOnly        == [keyTime |-> At(1), aedTime |-> EMPTY]

ValidatorCalibrations ==
    { [emt1 |-> c, emt2 |-> OneSecondAhead, emt3 |-> Uncalibrated] :
      c \in { Uncalibrated, KeyOnly, OneSecondAhead } }

InitValidator ==
    /\ pc = "validate"
    /\ fieldKey \in TimeRecordKeys
    /\ \E input \in CandidateInputs(fieldKey), rec \in RelatedRecords(fieldKey) :
          /\ subField = input.subField
          /\ timeRecords = [rec EXCEPT ![fieldKey] = input.record]
    /\ calibration \in ValidatorCalibrations
    /\ times = <<>>
    /\ validationError = FALSE
    /\ interruptionRecords = <<>> /\ metrics = <<>>
    /\ recordData = EMPTY /\ corrected = Pending
    /\ CalibrationIdle /\ DurationIdle /\ BoundaryIdle /\ InterruptionIdle
    /\ AppIdle

\* the raw value of the input under check
specificValue ==
    IF subField = "direct" THEN timeRecords[fieldKey] ELSE timeRecords[fieldKey][subField]

\* renderRow of the component with the N/A buttons validates the input
callGetValidationError ==
    /\ pc = "validate"
    /\ times' = getTimes(timeRecords, calibration)
    /\ validationError' =
          getValidationError(fieldKey, specificValue, subField, calibration, times')
    /\ pc' = "getValidationError"
    /\ UNCHANGED <<fieldKey, subField, timeRecords, interruptionRecords, metrics,
                   calibration, recordData, corrected, calibrationVars,
                   durationVars, boundaryVars, interruptionVars, appVars>>

\* an observer's input, or a direct input, of the record holds 'N/A'
HasNotApplicable(tr) ==
    \E key \in DOMAIN tr :
        IF IsString(tr[key]) THEN tr[key] = NOT_APPLICABLE ELSE AnyNotApplicable(tr[key])

\* renderRow of components/TimeRecording.tsx validates the input: that form
\* has no airway row, and its datetime-local inputs cannot write 'N/A'
callGetValidationError_tsx ==
    /\ pc = "validate"
    /\ fieldKey # "airway"
    /\ ~HasNotApplicable(timeRecords)
    /\ times' = getTimes(timeRecords, calibration)
    /\ validationError' =
          getValidationError_tsx(fieldKey, specificValue, subField, calibration, times')
    /\ pc' = "getValidationError_tsx"
    /\ UNCHANGED <<fieldKey, subField, timeRecords, interruptionRecords, metrics,
                   calibration, recordData, corrected, calibrationVars,
                   durationVars, boundaryVars, interruptionVars, appVars>>

\* the preview compares the resolved ROSC with AED-off
callRoscMismatch ==
    /\ pc = "validate"
    /\ fieldKey = "rosc"
    /\ times' = getTimes(timeRecords, calibration)
    /\ validationError' = roscMismatch(times')
    /\ pc' = "roscMismatch"
    /\ UNCHANGED <<fieldKey, subField, timeRecords, interruptionRecords, metrics,
                   calibration, recordData, corrected, calibrationVars,
                   durationVars, boundaryVars, interruptionVars, appVars>>

NextValidator ==
    callGetValidationError \/ callGetValidationError_tsx \/ callRoscMismatch

SpecValidator == InitValidator /\ [][NextValidator]_vars

Validated == pc \in { "getValidationError", "getValidationError_tsx" }

\* the input's own corrected instant: its time less its observer's offset
CandidateInstant ==
    IF subField = "direct"
    THEN GetTime(specificValue)
    ELSE Minus(GetTime(specificValue), OffsetOf(subField))

\* a direct input, or an observer with key time and AED time both set
ObserverCalibrated ==
    \/ subField = "direct"
    \/ /\ calibration[subField].keyTime # EMPTY
       /\ calibration[subField].aedTime # EMPTY

\* the event's instant in the corrected-instant map is a valid instant
ResolvedAt(key) == IsNum(times[key])

\* the events with one predecessor, and that predecessor
Predecessor ==
    [key \in { "contact", "ohcaJudgment", "cprStart", "powerOn", "padsOn",
               "firstVentilation", "airway", "mcprSetup", "firstMed" } |->
        CASE key = "contact"      -> "found"
          [] key = "ohcaJudgment" -> "contact"
          [] key = "padsOn"       -> "powerOn"
          [] key = "mcprSetup"    -> "cprStart"
          [] OTHER                -> "ohcaJudgment"]

\* C17: an empty candidate is no violation; a constraint whose other end point
\* is null in the corrected-instant map is no violation: a null predecessor,
\* a null AED-off for ROSC, and for the two-sided rules (first shock between
\* pads and AED-off, AED-off after MCPR or pads) an error is only ever due to
\* an end point that is not null.
C17_UnresolvedIsNoViolation ==
    Validated =>
        /\ specificValue = EMPTY => ~validationError
        /\ (fieldKey \in DOMAIN Predecessor /\ times[Predecessor[fieldKey]] = Null)
               => ~validationError
        /\ (fieldKey = "rosc" /\ times.aedOff = Null) => ~validationError
        /\ (fieldKey = "firstShock" /\ validationError)
               => \/ IsNum(times.padsOn) /\ ~(CandidateInstant.v > times.padsOn.v)
                  \/ IsNum(times.aedOff) /\ ~(CandidateInstant.v < times.aedOff.v)
        /\ (fieldKey = "aedOff" /\ validationError)
               => \/ times.mcprSetup # Null
                  \/ IsNum(times.padsOn) /\ ~(CandidateInstant.v > times.padsOn.v)
        /\ (fieldKey = "aedOff" /\ times.mcprSetup = Null /\ times.padsOn = Null)
               => ~validationError

\* a calibrated CPR-start input was validated while no judgment is recorded
C17_Witness ==
    /\ Validated
    /\ fieldKey = "cprStart" /\ subField = "emt1"
    /\ ObserverCalibrated /\ IsNum(CandidateInstant)
    /\ times.ohcaJudgment = Null
    /\ ~validationError

\* the distance in ms between the ROSC candidate and AED-off
RoscDistance == Abs(CandidateInstant.v - times.aedOff.v)

\* C18 as stated: with ROSC and AED-off both resolved, the check reports no
\* violation within 999 ms and a violation from 1001 ms on.
C18_RoscTolerance ==
    (Validated /\ fieldKey = "rosc" /\ ResolvedAt("rosc") /\ ResolvedAt("aedOff")
        /\ IsNum(CandidateInstant))
    => /\ RoscDistance <= 999 => ~validationError
       /\ RoscDistance >= 1001 => validationError

\* C18 amended: with AED-off resolved and the ROSC input's observer
\* calibrated, the input is no violation when its corrected instant is within
\* 999 ms of AED-off and a violation from 1001 ms on; the input of an observer
\* without a complete calibration is never a violation.  The preview's
\* roscMismatch follows the same limits on the resolved ROSC.
C18_RoscToleranceCalibrated ==
    /\ (Validated /\ fieldKey = "rosc" /\ ResolvedAt("aedOff")
           /\ IsNum(CandidateInstant))
       => IF ObserverCalibrated
          THEN /\ RoscDistance <= 999 => ~validationError
               /\ RoscDistance >= 1001 => validationError
          ELSE ~validationError
    /\ (pc = "roscMismatch" /\ ResolvedAt("rosc") /\ ResolvedAt("aedOff"))
       => /\ Abs(times.rosc.v - times.aedOff.v) <= 999 => ~validationError
          /\ Abs(times.rosc.v - times.aedOff.v) >= 1001 => validationError

\* a calibrated ROSC input 1001 ms after AED-off was flagged
C18_Witness ==
    /\ Validated
    /\ fieldKey = "rosc" /\ ObserverCalibrated
    /\ ResolvedAt("aedOff") /\ IsNum(CandidateInstant)
    /\ CandidateInstant.v - times.aedOff.v = 1001
    /\ validationError

\* MCPR was flagged as not performed by one of its observers
McprNotPerformed == AnyNotApplicable(timeRecords.mcprSetup)

\* C19: a parsed AED-off input is a violation exactly when it is not strictly
\* after the corrected MCPR-setup instant, if MCPR was performed; exactly when
\* it is not strictly after the corrected pads-on instant, if MCPR was flagged
\* not performed; it is not checked against pads-on otherwise.
C19_AedOffAfterMcprOrPads ==
    (Validated /\ fieldKey = "aedOff" /\ IsNum(CandidateInstant)) =>
        /\ ResolvedAt("mcprSetup")
               => (validationError <=> ~(CandidateInstant.v > times.mcprSetup.v))
        /\ (McprNotPerformed /\ ResolvedAt("padsOn"))
               => (validationError <=> ~(CandidateInstant.v > times.padsOn.v))
        /\ (~McprNotPerformed /\ times.mcprSetup = Null) => ~validationError

\* C19 amended: a parsed AED-off input is a violation exactly when it is not
\* strictly after the corrected MCPR-setup instant, if that instant is
\* resolved.  If it is null (MCPR flagged not performed, or not recorded yet)
\* the form with the N/A buttons checks the input against pads-on: a violation
\* exactly when pads-on is resolved and the input is not strictly after it;
\* components/TimeRecording.tsx then reports no violation.
C19_AedOffAfterMcprElsePads ==
    (Validated /\ fieldKey = "aedOff" /\ IsNum(CandidateInstant)) =>
        /\ ResolvedAt("mcprSetup")
               => (validationError <=> ~(CandidateInstant.v > times.mcprSetup.v))
        /\ (pc = "getValidationError" /\ times.mcprSetup = Null)
               => /\ times.padsOn = Null => ~validationError
                  /\ ResolvedAt("padsOn")
                        => (validationError <=> ~(CandidateInstant.v > times.padsOn.v))
        /\ (pc = "getValidationError_tsx" /\ times.mcprSetup = Null)
               => ~validationError

\* MCPR flagged not performed, AED-off equal to pads-on: a violation
C19_Witness ==
    /\ pc = "getValidationError"
    /\ fieldKey = "aedOff"
    /\ McprNotPerformed
    /\ ResolvedAt("padsOn") /\ CandidateInstant = times.padsOn
    /\ validationError

\* the fixed constraint of the event holds of the candidate's corrected instant
MeetsConstraint ==
    IF fieldKey \in DOMAIN Predecessor
    THEN CandidateInstant.v > times[Predecessor[fieldKey]].v
    ELSE IF fieldKey = "firstShock"
    THEN /\ CandidateInstant.v > times.padsOn.v
         /\ CandidateInstant.v < times.aedOff.v
    ELSE TRUE

\* C20: with the instants its rule reads resolved and the candidate's observer
\* calibrated, a candidate is a violation exactly when its corrected instant
\* is not strictly after its predecessor (contact > found, judgment > contact,
\* CPR-start, power-on, ventilation, airway, medication > judgment, pads >
\* power-on, MCPR > CPR-start), or, for the first shock, not strictly between
\* pads-on and AED-off; an event without a rule (found) is never a violation.
C20_FixedConstraints ==
    (Validated /\ fieldKey \in (DOMAIN Predecessor \cup { "firstShock", "found" })
        /\ ObserverCalibrated /\ IsNum(CandidateInstant)
        /\ \A k \in RelatedKeys(fieldKey) : ResolvedAt(k))
    => (validationError <=> ~MeetsConstraint)

\* a calibrated airway input equal to the judgment instant was flagged
C20_Witness ==
    /\ pc = "getValidationError"
    /\ fieldKey = "airway" /\ subField = "emt2"
    /\ ObserverCalibrated
    /\ ResolvedAt("ohcaJudgment") /\ CandidateInstant = times.ohcaJudgment
    /\ validationError

\* observer e's candidate is the one the resolver selects from rd
SelectedIn(rd, e) ==
    /\ ~AnyNotApplicable(rd)
    /\ Truthy(EmtTime(rd[e]))
    /\ \A b \in Before(e) : ~Truthy(EmtTime(rd[b]))

\* the distance in ms between the resolved ROSC and AED-off instants
ResolvedRoscDistance == Abs(times.rosc.v - times.aedOff.v)

\* the ROSC input under check is the candidate the resolver selects, and ROSC
\* and AED-off are both resolved
RoscPairChecked ==
    /\ Validated /\ fieldKey = "rosc"
    /\ SelectedIn(timeRecords.rosc, subField)
    /\ ResolvedAt("rosc") /\ ResolvedAt("aedOff")

\* C26 as stated: for every pair of resolved ROSC and AED-off instants the
\* field validator and the preview's roscMismatch give the same verdict when
\* the distance is not exactly 1000 ms (both flag a distance above 1000, none
\* flags one below), and at exactly 1000 ms the validator flags a violation
\* while roscMismatch does not.
C26_RoscChecksAgree ==
    /\ RoscPairChecked
           => IF ResolvedRoscDistance = 1000
              THEN validationError
              ELSE validationError <=> ResolvedRoscDistance > 1000
    /\ (pc = "roscMismatch" /\ ResolvedAt("rosc") /\ ResolvedAt("aedOff"))
           => IF ResolvedRoscDistance = 1000
              THEN ~validationError
              ELSE validationError <=> ResolvedRoscDistance > 1000

\* C26 amended: when the observer of the selected ROSC candidate has a complete
\* calibration the two checks give the same verdict at every distance other
\* than 1000 ms, and at exactly 1000 ms the validator flags a violation while
\* roscMismatch does not; when that observer has no complete calibration the
\* validator flags nothing at any distance, while roscMismatch reports every
\* distance above 1000 ms.
C26_RoscChecksAgreeCalibrated ==
    /\ RoscPairChecked
           => IF ~ObserverCalibrated
              THEN ~validationError
              ELSE IF ResolvedRoscDistance = 1000
              THEN validationError /\ ~roscMismatch(times)
              ELSE /\ validationError <=> ResolvedRoscDistance > 1000
                   /\ validationError <=> roscMismatch(times)
    /\ (pc = "roscMismatch" /\ ResolvedAt("rosc") /\ ResolvedAt("aedOff"))
           => IF ResolvedRoscDistance = 1000
              THEN ~validationError
              ELSE validationError <=> ResolvedRoscDistance > 1000

\* a calibrated ROSC input exactly 1000 ms before AED-off: flagged by the
\* validator, and no mismatch for the preview
C26_Witness ==
    /\ RoscPairChecked /\ ObserverCalibrated
    /\ times.aedOff.v - times.rosc.v = 1000
    /\ validationError
    /\ ~roscMismatch(times)

\* C27: the input of an observer whose calibration pair is incomplete is never
\* a violation, whatever the ordering; the resolver still resolves that
\* candidate, with offset 0, to its raw instant; and the input of a calibrated
\* observer is validated against that raw instant.
C27_UncalibratedNeverFlagged ==
    Validated =>
        /\ (subField # "direct" /\ ~ObserverCalibrated)
               => /\ ~validationError
                  /\ SelectedIn(timeRecords[fieldKey], subField)
                        => times[fieldKey] = GetTime(specificValue)
        /\ (/\ fieldKey \in DOMAIN Predecessor \ { "padsOn" }
            /\ ObserverCalibrated /\ IsNum(CandidateInstant)
            /\ Incomplete("emt1")
            /\ SelectedIn(timeRecords[Predecessor[fieldKey]], "emt1"))
               => LET raw == GetTime(timeRecords[Predecessor[fieldKey]].emt1)
                  IN  /\ times[Predecessor[fieldKey]] = raw
                      /\ validationError <=> ~(CandidateInstant.v > raw.v)

\* observer 1, with a key time and no AED time, entered a CPR start one second
\* before the judgment it also recorded: resolved as entered, and not flagged
C27_Witness ==
    /\ Validated
    /\ fieldKey = "cprStart" /\ subField = "emt1"
    /\ calibration.emt1.keyTime # EMPTY /\ calibration.emt1.aedTime = EMPTY
    /\ IsNum(times.ohcaJudgment)
    /\ times.cprStart = GetTime(specificValue)
    /\ times.cprStart.v = times.ohcaJudgment.v - 1000
    /\ ~validationError

(***************************************************************************)
(* App: the state of the application.  data is held in the variables       *)
(* calibration, timeRecords, basicInfo, technicalInfo, interruptionRecords *)
(* (its five top-level fields).  Text fields other than timestamps hold    *)
(* "" or some text; the engine reads none of them.                         *)
(***************************************************************************)
\* Array(count).fill(null).map(...): count empty slots
createEmptyInterruptions(count) == [i \in 1 .. count |-> EmptySlot]

INITIAL_STATE ==
    [calibration |-> [emt1 |-> Uncalibrated, emt2 |-> Uncalibrated,
                      emt3 |-> Uncalibrated],
     timeRecords |-> BlankRecords,
     basicInfo |-> [reviewer |-> "", battalion |-> "", caseId |-> "",
                    date |-> "today", unit |-> "", ohcaType |-> "",
                    notificationTime |-> "", member1 |-> "", member2 |-> "",
                    member3 |-> "", member4 |-> "", member5 |-> "",
                    member6 |-> "", memo |-> ""],
     technicalInfo |-> [checkPulse |-> "", useCompressor |-> "",
                        initialRhythm |-> "", endoAttempts |-> 0,
                        airwayDevice |-> "", etco2Used |-> "", etco2Value |-> "",
                        ivOperator |-> "", ioOperator |-> "", endoOperator |-> "",
                        teamLeader |-> "", aedPadCorrect |-> ""],
     interruptionRecords |-> [beforePads |-> createEmptyInterruptions(5),
                              beforeMcpr |-> createEmptyInterruptions(10)]]

\* data is INITIAL_STATE
DataIsInitial ==
    /\ calibration = INITIAL_STATE.calibration
    /\ timeRecords = INITIAL_STATE.timeRecords
    /\ basicInfo = INITIAL_STATE.basicInfo
    /\ technicalInfo = INITIAL_STATE.technicalInfo
    /\ interruptionRecords = INITIAL_STATE.interruptionRecords

\* { ...a, ...b }: the fields of both, b's value where both have the field
Spread(a, b) ==
    [k \in DOMAIN a \cup DOMAIN b |-> IF k \in DOMAIN b THEN b[k] ELSE a[k]]

\* an object without the field k
Without(obj, k) == [x \in DOMAIN obj \ { k } |-> obj[x]]

(***************************************************************************)
(* SpecLoad: the application is mounted over what local storage holds      *)
(* under 'ohca-app-state-v3': nothing, a text that is no JSON, or the      *)
(* snapshot some version of the application wrote.  A snapshot holds each  *)
(* top-level field as this version writes it, or as a version that lacked  *)
(* one of its fields wrote it, or not at all.                              *)
(***************************************************************************)
NoItem     == [t |-> "null", v |-> <<>>]
BrokenJson == [t |-> "not JSON", v |-> <<>>]
Parsed(obj) == [t |-> "object", v |-> obj]

\* what a case in progress holds
SavedState ==
    [calibration |-> [emt1 |-> Calibrated, emt2 |-> Uncalibrated,
                      emt3 |-> Uncalibrated],
     timeRecords |-> [BlankRecords EXCEPT
                        !.found = ByObservers(Iso(0, 10, 0, 0), EMPTY)],
     basicInfo |-> [INITIAL_STATE.basicInfo EXCEPT !.reviewer = "text"],
     technicalInfo |-> [INITIAL_STATE.technicalInfo EXCEPT !.checkPulse = "text"],
     interruptionRecords |-> [INITIAL_STATE.interruptionRecords EXCEPT
                                !.beforePads[1] = TenSeconds]]

\* the field of each top-level object that a version may have lacked
NewField ==
    [calibration |-> "emt3", timeRecords |-> "airway", basicInfo |-> "battalion",
     technicalInfo |-> "checkPulse", interruptionRecords |-> "beforeMcpr"]

TopLevelKeys == DOMAIN INITIAL_STATE

\* per top-level field: "absent", "current" or "older"
SnapshotShapes == [TopLevelKeys -> { "absent", "current", "older" }]

Snapshot(shape) ==
    [k \in { x \in TopLevelKeys : shape[x] # "absent" } |->
        IF shape[k] = "current"
        THEN SavedState[k]
        ELSE Without(SavedState[k], NewField[k])]

SavedItems ==
    { NoItem, BrokenJson } \cup { Parsed(Snapshot(shape)) : shape \in SnapshotShapes }

\* parsed.<field>, undefined written as the empty object where it is spread
FieldOr(parsed, k, default) == IF k \in DOMAIN parsed THEN parsed[k] ELSE default

\* the object given to setData: { ...INITIAL_STATE, ...parsed,
\* interruptionRecords: parsed.interruptionRecords || INITIAL_STATE...,
\* basicInfo: { ...INITIAL_STATE.basicInfo, ...parsed.basicInfo },
\* technicalInfo: { ...INITIAL_STATE.technicalInfo, ...parsed.technicalInfo } }
mergeWithInitial(parsed) ==
    [Spread(INITIAL_STATE, parsed) EXCEPT
        !.interruptionRecords =
            FieldOr(parsed, "interruptionRecords", INITIAL_STATE.interruptionRecords),
        !.basicInfo =
            Spread(INITIAL_STATE.basicInfo, FieldOr(parsed, "basicInfo", <<>>)),
        !.technicalInfo =
            Spread(INITIAL_STATE.technicalInfo, FieldOr(parsed, "technicalInfo", <<>>))]

InitLoad ==
    /\ pc = "mount"
    /\ saved \in SavedItems
    /\ DataIsInitial
    /\ activeTab = 0 /\ showPreview = FALSE
    /\ correctedTimes = <<>> /\ flags = {}
    /\ times = <<>> /\ metrics = <<>>
    /\ recordData = EMPTY /\ corrected = Pending
    /\ CalibrationIdle /\ DurationIdle /\ BoundaryIdle /\ InterruptionIdle
    /\ ValidatorIdle /\ SubmitIdle

\* the two effects of the first render: the stored item is read and merged
\* into data, and data is written back
loadEffect ==
    /\ pc = "mount"
    /\ LET loaded == IF saved.t = "object"
                      THEN mergeWithInitial(saved.v)
                      ELSE INITIAL_STATE
       IN  /\ calibration' = loaded.calibration
           /\ timeRecords' = loaded.timeRecords
           /\ basicInfo' = loaded.basicInfo
           /\ technicalInfo' = loaded.technicalInfo
           /\ interruptionRecords' = loaded.interruptionRecords
           /\ saved' = Parsed(loaded)
    /\ pc' = "loaded"
    /\ UNCHANGED <<recordData, corrected, times, metrics, calibrationVars,
                   durationVars, boundaryVars, interruptionVars, validatorVars,
                   sessionVars, submitVars>>

NextLoad == loadEffect

SpecLoad == InitLoad /\ [][NextLoad]_vars

\* obj has every field that initial has
HasFieldsOf(obj, initial) == DOMAIN initial \subseteq DOMAIN obj

\* C24: after the state is loaded from local storage every field of
\* INITIAL_STATE exists in it: those of basicInfo and technicalInfo, the two
\* interruption lists, each event of timeRecords with its three observers,
\* and each observer of calibration with its two times, whatever version
\* wrote the snapshot.
C24_AllFieldsAfterLoad ==
    pc = "loaded" =>
        /\ HasFieldsOf(basicInfo, INITIAL_STATE.basicInfo)
        /\ HasFieldsOf(technicalInfo, INITIAL_STATE.technicalInfo)
        /\ HasFieldsOf(interruptionRecords, INITIAL_STATE.interruptionRecords)
        /\ HasFieldsOf(timeRecords, INITIAL_STATE.timeRecords)
        /\ \A key \in DOMAIN timeRecords \cap MultiKeys :
              HasFieldsOf(timeRecords[key], NoObservation)
        /\ HasFieldsOf(calibration, INITIAL_STATE.calibration)
        /\ \A e \in DOMAIN calibration : HasFieldsOf(calibration[e], Uncalibrated)

(***************************************************************************)
(* SpecSession: a case is entered from INITIAL_STATE.  The tab bar mounts  *)
(* one form at a time; the calibration form edits calibration, the         *)
(* time-recording form (the one with the N/A buttons) edits timeRecords    *)
(* through the inputs it enables, the interruption form edits the lists.   *)
(* The preview covers the whole window, so nothing is edited while it is   *)
(* mounted.  Observers 1 and 2 are calibrated and record; the inputs used  *)
(* are those of the judgment, CPR start, pads, MCPR setup and AED-off.     *)
(***************************************************************************)
TabCalibration   == 1
TabTimeRecording == 2
TabInterruption  == 3
Tabs == 0 .. 4

\* useMemo: the cell is kept while its dependencies are those of the last
\* computation.  An edit builds a new object for the slice it changes and
\* keeps the others, so a dependency is the same object exactly when no
\* edit of that slice lies in between; dependencies are compared here by
\* content, which keeps a cell only where recomputing gives the same value.
useMemo(cell, deps, value) ==
    IF cell # <<>> /\ cell.deps = deps
    THEN cell
    ELSE [deps |-> deps, value |-> value]

\* a dependency list without data.timeRecords
correctedTimesDeps_calibrationOnly(tr, cal) == <<cal>>

\* [data.timeRecords, data.calibration]
correctedTimesDeps(tr, cal) == <<tr, cal>>

\* TimeRecording: isEmtEnabled
isEmtEnabled(cal, emt) == emt = "emt1" \/ cal[emt].keyTime # EMPTY

\* renderRow: a direct input is never disabled, an observer's input is
\* disabled unless the observer is enabled
inputEnabled(cal, sub) == IF sub = "direct" THEN TRUE ELSE isEmtEnabled(cal, sub)

\* the inputs of a row: one direct input, or one per observer
SubFields(key) == IF key \in DirectKeys THEN { "direct" } ELSE Observers

\* the value an input of the form shows
ValueAt(tr, key, sub) == IF sub = "direct" THEN tr[key] ELSE tr[key][sub]

\* one render of TimeRecording: the inputs drawn as errors
isError(tr, cal, t) ==
    { in \in { <<key, sub>> : key \in TimeRecordKeys, sub \in Observers \cup { "direct" } } :
        /\ in[2] \in SubFields(in[1])
        /\ inputEnabled(cal, in[2])
        /\ getValidationError(in[1], ValueAt(tr, in[1], in[2]), in[2], cal, t) }

\* toFixed(1) is a function of its operand: of the texts an exact tie
\* admits, every call returns the same one
Rounded(texts) == CHOOSE text \in texts : TRUE

\* a report whose interruption total starts from the total reported before
report_retained(t, tr, ir) ==
    LET before == IF metrics = <<>> THEN 0 ELSE metrics.interruptionPads.v
        interruptionPads == Num(reduceInterruption(ir.beforePads, before))
        interruptionMcpr == calculateInterruption(ir.beforeMcpr)
        isMcprNA == isNA(tr.mcprSetup)
        isVentNA == isNA(tr.firstVentilation)
        isAirwayNA == isNA(tr.airway)
        preAed == timeInCompPreAed(t, interruptionPads)
        preMcpr == timeInCompPreMcpr(t, isMcprNA, interruptionMcpr)
        totalDuration_ == totalDurationManual(t, isMcprNA)
    IN  [cprDelay |-> getSafeDuration(t.ohcaJudgment, t.cprStart),
         padsDelay |-> getSafeDuration(t.ohcaJudgment, t.padsOn),
         bvmTime |-> delayUnlessNA(isVentNA, t, "firstVentilation"),
         medDelay |-> getSafeDuration(t.ohcaJudgment, t.firstMed),
         airwayTime |-> delayUnlessNA(isAirwayNA, t, "airway"),
         interruptionPads |-> interruptionPads,
         interruptionMcpr |-> interruptionMcpr,
         timeInCompPreAed |-> preAed,
         timeInCompPreMcpr |-> preMcpr,
         totalDuration |-> totalDuration_,
         manualCCF |-> Rounded(manualCCF(preAed, preMcpr, totalDuration_))]

\* one render of components/PreviewModal.tsx over the memoized instants t:
\* the delays, the interruption totals, the compression times and the CCF
report(t, tr, ir) ==
    LET interruptionPads == calculateInterruption(ir.beforePads)
        interruptionMcpr == calculateInterruption(ir.beforeMcpr)
        isMcprNA == isNA(tr.mcprSetup)
        isVentNA == isNA(tr.firstVentilation)
        isAirwayNA == isNA(tr.airway)
        preAed == timeInCompPreAed(t, interruptionPads)
        preMcpr == timeInCompPreMcpr(t, isMcprNA, interruptionMcpr)
        totalDuration_ == totalDurationManual(t, isMcprNA)
    IN  [cprDelay |-> getSafeDuration(t.ohcaJudgment, t.cprStart),
         padsDelay |-> getSafeDuration(t.ohcaJudgment, t.padsOn),
         bvmTime |-> delayUnlessNA(isVentNA, t, "firstVentilation"),
         medDelay |-> getSafeDuration(t.ohcaJudgment, t.firstMed),
         airwayTime |-> delayUnlessNA(isAirwayNA, t, "airway"),
         interruptionPads |-> interruptionPads,
         interruptionMcpr |-> interruptionMcpr,
         timeInCompPreAed |-> preAed,
         timeInCompPreMcpr |-> preMcpr,
         totalDuration |-> totalDuration_,
         manualCCF |-> Rounded(manualCCF(preAed, preMcpr, totalDuration_))]

\* what the calibration form's inputs are set to
CalibrationEdits ==
    { [key |-> k, field |-> "keyTime", value |-> v] :
        k \in { "emt1", "emt2" }, v \in { EMPTY, KeySample } }
    \cup
    { [key |-> k, field |-> "aedTime", value |-> v] :
        k \in { "emt1", "emt2" }, v \in { EMPTY, AedSample } }

\* what the time-recording form's inputs are set to: CPR start lies 10 s
\* before the judgment
TimeRecordEdits ==
    { [category |-> "ohcaJudgment", subField |-> "emt1", value |-> v] :
        v \in { EMPTY, Iso(0, 10, 0, 0) } }
    \cup
    { [category |-> "cprStart", subField |-> "emt1", value |-> v] :
        v \in { EMPTY, Iso(0, 9, 59, 50) } }
    \cup
    { [category |-> "padsOn", subField |-> "emt2", value |-> v] :
        v \in { EMPTY, Iso(0, 10, 1, 0) } }
    \cup
    { [category |-> "mcprSetup", subField |-> "emt1", value |-> v] :
        v \in { EMPTY, Iso(0, 10, 3, 0) } }
    \cup
    { [category |-> "aedOff", subField |-> "direct", value |-> v] :
        v \in { EMPTY, Iso(0, 10, 5, 0) } }

\* the rows rendered with allowNA, and of them the one toggled here
AllowNA == { "firstVentilation", "mcprSetup", "airway" }
ToggledInputs == { [category |-> "mcprSetup", subField |-> "emt1"] }

\* what the first slot before the pads is set to
InterruptionEdits ==
    { [section |-> "beforePads", index |-> 1, field |-> "start", value |-> v] :
        v \in { <<>>, TenSeconds.start } }
    \cup
    { [section |-> "beforePads", index |-> 1, field |-> "end", value |-> v] :
        v \in { <<>>, TenSeconds.end } }

\* App: the timeRecords updateTimeRecord returns
updatedTimeRecords(tr, category, sub, value) ==
    LET currentCategory == tr[category]
        newValue == IF sub # "direct" /\ ~IsString(currentCategory)
                    THEN [currentCategory EXCEPT ![sub] = value]
                    ELSE value
    IN  [tr EXCEPT ![category] = newValue]

InitSession ==
    /\ pc = "session"
    /\ DataIsInitial
    /\ activeTab = 0 /\ showPreview = FALSE
    /\ correctedTimes = <<>> /\ flags = {}
    /\ times = <<>> /\ metrics = <<>>
    /\ recordData = EMPTY /\ corrected = Pending
    /\ CalibrationIdle /\ DurationIdle /\ BoundaryIdle /\ InterruptionIdle
    /\ ValidatorIdle /\ StorageIdle /\ SubmitIdle

\* TimeRecording renders over tr and cal: the memo cell and the error styles
renderTimeRecording(cell, tr, cal) ==
    /\ correctedTimes' = useMemo(cell, correctedTimesDeps(tr, cal), getTimes(tr, cal))
    /\ flags' = isError(tr, cal, correctedTimes'.value)

\* a tab of the bottom navigation is clicked: its form replaces the mounted
\* one
setActiveTab ==
    /\ pc = "session" /\ ~showPreview
    /\ \E index \in Tabs \ { activeTab } :
          /\ activeTab' = index
          /\ IF index = TabTimeRecording
             THEN renderTimeRecording(<<>>, timeRecords, calibration)
             ELSE correctedTimes' = <<>> /\ flags' = {}
    /\ UNCHANGED <<pc, showPreview, timeRecords, calibration, interruptionRecords,
                   times, metrics, recordData, corrected, calibrationVars,
                   durationVars, boundaryVars, interruptionVars, validatorVars,
                   formVars, storageVars, submitVars>>

\* an input of the calibration form changes
updateCalibration ==
    /\ pc = "session" /\ ~showPreview /\ activeTab = TabCalibration
    /\ \E edit \in CalibrationEdits :
          calibration' = [calibration EXCEPT ![edit.key][edit.field] = edit.value]
    /\ UNCHANGED <<pc, activeTab, showPreview, correctedTimes, flags, timeRecords,
                   interruptionRecords, times, metrics, recordData, corrected,
                   calibrationVars, durationVars, boundaryVars, interruptionVars,
                   validatorVars, formVars, storageVars, submitVars>>

\* an enabled date-time input of the time-recording form changes, and the
\* form renders again
updateTimeRecord ==
    /\ pc = "session" /\ ~showPreview /\ activeTab = TabTimeRecording
    /\ \E edit \in TimeRecordEdits :
          /\ inputEnabled(calibration, edit.subField)
          /\ ValueAt(timeRecords, edit.category, edit.subField) # NOT_APPLICABLE
          /\ timeRecords' = updatedTimeRecords(timeRecords, edit.category,
                                               edit.subField, edit.value)
    /\ renderTimeRecording(correctedTimes, timeRecords', calibration)
    /\ UNCHANGED <<pc, activeTab, showPreview, calibration, interruptionRecords,
                   times, metrics, recordData, corrected, calibrationVars,
                   durationVars, boundaryVars, interruptionVars, validatorVars,
                   formVars, storageVars, submitVars>>

\* the N/A button of an enabled input is clicked, and the form renders again
handleToggleNA ==
    /\ pc = "session" /\ ~showPreview /\ activeTab = TabTimeRecording
    /\ \E in \in ToggledInputs :
          /\ in.category \in AllowNA
          /\ isEmtEnabled(calibration, in.subField)
          /\ LET currentValue == ValueAt(timeRecords, in.category, in.subField)
             IN  timeRecords' =
                    updatedTimeRecords(timeRecords, in.category, in.subField,
                                       IF currentValue = NOT_APPLICABLE
                                       THEN EMPTY ELSE NOT_APPLICABLE)
    /\ renderTimeRecording(correctedTimes, timeRecords', calibration)
    /\ UNCHANGED <<pc, activeTab, showPreview, calibration, interruptionRecords,
                   times, metrics, recordData, corrected, calibrationVars,
                   durationVars, boundaryVars, interruptionVars, validatorVars,
                   formVars, storageVars, submitVars>>

\* an input of the interruption form changes
updateInterruption ==
    /\ pc = "session" /\ ~showPreview /\ activeTab = TabInterruption
    /\ \E edit \in InterruptionEdits :
          interruptionRecords' =
              [interruptionRecords EXCEPT
                  ![edit.section][edit.index][edit.field] = edit.value]
    /\ UNCHANGED <<pc, activeTab, showPreview, correctedTimes, flags, timeRecords,
                   calibration, times, metrics, recordData, corrected,
                   calibrationVars, durationVars, boundaryVars, interruptionVars,
                   validatorVars, formVars, storageVars, submitVars>>

\* the header's button mounts the preview over the mounted form
openPreview ==
    /\ pc = "session" /\ ~showPreview
    /\ showPreview' = TRUE
    /\ times' = getTimes(timeRecords, calibration)
    /\ metrics' = report(times', timeRecords, interruptionRecords)
    /\ pc' = "session"
    /\ UNCHANGED <<activeTab, correctedTimes, flags, timeRecords, calibration,
                   interruptionRecords, recordData, corrected, calibrationVars,
                   durationVars, boundaryVars, interruptionVars, validatorVars,
                   formVars, storageVars, submitVars>>

\* the mounted preview renders again over the same data: its memo keeps the
\* instants, everything else is computed anew
rerenderPreview ==
    /\ pc \in { "session", "rendered again" } /\ showPreview
    /\ times' = times
    /\ metrics' = report(times, timeRecords, interruptionRecords)
    /\ pc' = "rendered again"
    /\ UNCHANGED <<activeTab, showPreview, correctedTimes, flags, timeRecords,
                   calibration, interruptionRecords, recordData, corrected,
                   calibrationVars, durationVars, boundaryVars, interruptionVars,
                   validatorVars, formVars, storageVars, submitVars>>

\* the preview is closed and unmounted
closePreview ==
    /\ pc \in { "session", "rendered again" } /\ showPreview
    /\ showPreview' = FALSE
    /\ times' = <<>>
    /\ metrics' = <<>>
    /\ pc' = "session"
    /\ UNCHANGED <<activeTab, correctedTimes, flags, timeRecords, calibration,
                   interruptionRecords, recordData, corrected, calibrationVars,
                   durationVars, boundaryVars, interruptionVars, validatorVars,
                   formVars, storageVars, submitVars>>

NextSession ==
    \/ setActiveTab \/ updateCalibration \/ updateTimeRecord \/ handleToggleNA
    \/ updateInterruption \/ openPreview \/ rerenderPreview \/ closePreview

SpecSession == InitSession /\ [][NextSession]_vars

\* C23: after any sequence of calibration, time-record and interruption
\* edits, what is shown is what recomputing from the current snapshot gives:
\* the mounted time-recording form's memoized corrected instants and its
\* error flags, and the mounted preview's corrected instants and metrics; no
\* instant computed before an edit is used after it.
C23_RecomputedFromCurrentSnapshot ==
    LET current == getTimes(timeRecords, calibration)
    IN  /\ activeTab = TabTimeRecording =>
              /\ correctedTimes.value = current
              /\ flags = isError(timeRecords, calibration, current)
        /\ showPreview =>
              /\ times = current
              /\ metrics = report(current, timeRecords, interruptionRecords)

\* calibration, time records and an interruption were edited; the form flags
\* CPR start and the preview reports over the same snapshot
C23_Witness ==
    /\ activeTab = TabTimeRecording /\ showPreview
    /\ calibration.emt1 = Calibrated
    /\ timeRecords.cprStart.emt1 # EMPTY
    /\ <<"cprStart", "emt1">> \in flags
    /\ metrics.interruptionPads = Num(10)
    /\ metrics.cprDelay = Num(-10)

Elapsed(a, b) == IF a = Null \/ b = Null THEN Null ELSE Num((b.v - a.v) \div 1000)

\* a - b on seconds, null when a is missing
Less(a, b) == IF a = Null THEN Null ELSE Num(a.v - b.v)

\* the instant the compression before MCPR ends at, for the mounted preview
SessionMcprOrOff ==
    IF timeRecords.mcprSetup.emt1 = NOT_APPLICABLE
    THEN times.aedOff
    ELSE times.mcprSetup

\* C21: an ordering violation neither changes nor suppresses a metric: in
\* the mounted preview every delay is the elapsed time between its two
\* corrected instants (negative when they are out of order), the
\* interruption totals are the sums of the listed intervals, the compression
\* times are the segment lengths less those totals, and the CCF is their
\* percentage of the denominator, whatever inputs the form flags.
C21_MetricsWhateverTheFlags ==
    showPreview =>
        LET j == times.ohcaJudgment
            pads == Num(SumOfContributions(interruptionRecords.beforePads))
            mcpr == Num(SumOfContributions(interruptionRecords.beforeMcpr))
            preAed == Less(Elapsed(j, times.padsOn), pads)
            preMcpr == Less(Elapsed(times.padsOn, SessionMcprOrOff), mcpr)
            den == Elapsed(j, SessionMcprOrOff)
        IN  /\ metrics.cprDelay = Elapsed(j, times.cprStart)
            /\ metrics.padsDelay = Elapsed(j, times.padsOn)
            /\ metrics.medDelay = Elapsed(j, times.firstMed)
            /\ metrics.bvmTime = Elapsed(j, times.firstVentilation)
            /\ metrics.airwayTime = Elapsed(j, times.airway)
            /\ metrics.interruptionPads = pads
            /\ metrics.interruptionMcpr = mcpr
            /\ metrics.timeInCompPreAed = preAed
            /\ metrics.timeInCompPreMcpr = preMcpr
            /\ metrics.totalDuration = den
            /\ IF preAed # Null /\ preMcpr # Null /\ den # Null
               THEN IsPercentOf(metrics.manualCCF, preAed.v + preMcpr.v, den.v)
               ELSE metrics.manualCCF = NotAvailable

\* the form flags CPR start, which lies before the judgment, and the
\* preview over it reports the delay of -10 s and a CCF
C21_Witness ==
    /\ showPreview /\ activeTab = TabTimeRecording
    /\ <<"cprStart", "emt1">> \in flags
    /\ metrics.cprDelay = Num(-10)
    /\ metrics.padsDelay # Null
    /\ metrics.manualCCF.t = "percent"

\* the observers whose inputs the form disables while their key time is
\* empty
LaterObservers == { "emt2", "emt3" }

\* observer e's candidates, event by event
CandidatesOf(tr, e) == [key \in MultiKeys |-> tr[key][e]]

\* the step empties the key time of observer e
ClearsKeyTime(e) ==
    calibration[e].keyTime # EMPTY /\ calibration'[e].keyTime = EMPTY

\* while the key time of observer e is empty, e's candidate for key is the
\* one the priority selects, and what is shown uses it with offset 0
UsedUncorrected(e, key) ==
    LET raw == GetTime(timeRecords[key][e])
    IN  /\ activeTab = TabTimeRecording => correctedTimes.value[key] = raw
        /\ showPreview =>
              /\ times[key] = raw
              /\ key = "padsOn" =>
                    metrics.padsDelay = Elapsed(times.ohcaJudgment, raw)

\* C28: emptying the key time of observer 2 or 3 leaves every candidate in
\* the time records as it was; while that key time is empty none of the
\* observer's candidates changes (its inputs are disabled); and a candidate
\* of that observer which the priority 1, 2, 3 selects is still the event's
\* corrected instant, in the form and in the preview's instants and
\* metrics, now with offset 0.
C28_ClearedKeyTimeKeepsCandidates ==
    /\ [][\A e \in LaterObservers :
            /\ ClearsKeyTime(e) => timeRecords' = timeRecords
            /\ calibration[e].keyTime = EMPTY =>
                  CandidatesOf(timeRecords', e) = CandidatesOf(timeRecords, e)]_vars
    /\ [](\A e \in LaterObservers, key \in MultiKeys :
            (calibration[e].keyTime = EMPTY /\ SelectedIn(timeRecords[key], e))
                => UsedUncorrected(e, key))

\* observer 2 entered the pads instant, its key time was emptied afterwards
\* (its AED time still set), and the preview reports the pads delay from the
\* uncorrected instant
C28_Witness ==
    /\ showPreview
    /\ calibration.emt2.keyTime = EMPTY /\ calibration.emt2.aedTime # EMPTY
    /\ timeRecords.padsOn.emt2 = Iso(0, 10, 1, 0)
    /\ calibration.emt1 = Uncalibrated
    /\ timeRecords.ohcaJudgment.emt1 = Iso(0, 10, 0, 0)
    /\ times.padsOn = GetTime(Iso(0, 10, 1, 0))
    /\ metrics.padsDelay = Num(60)

(***************************************************************************)
(* SpecSubmit: an entered case is previewed and submitted.  The header's   *)
(* button mounts a new instance of the preview, whose state starts at      *)
(* (false, false, ''); closing unmounts it, and a state update of an       *)
(* unmounted instance is dropped.  A fetch settles at any later time, by    *)
(* resolving or by rejecting.  pc names the copy of the preview the build  *)
(* mounts: components/PreviewModal.tsx, or the one with an overall CCF.    *)
(***************************************************************************)
MaxOpens == 2

PreviewModalTsx  == "components/PreviewModal.tsx"
PreviewModalPart == "unnamed/part_001"
PreviewCopies    == { PreviewModalTsx, PreviewModalPart }

RequiredBasicInfo ==
    { "reviewer", "battalion", "unit", "caseId", "date", "ohcaType",
      "notificationTime", "member1", "member2" }

RequiredTechnicalInfo ==
    { "aedPadCorrect", "checkPulse", "useCompressor", "initialRhythm" }

\* checkTime: a direct input is empty, or no observer has a value
checkTime(tr, key) ==
    IF IsString(tr[key])
    THEN tr[key] = EMPTY
    ELSE tr[key].emt1 = EMPTY /\ tr[key].emt2 = EMPTY /\ tr[key].emt3 = EMPTY

\* checkConditionalTime: no observer flagged N/A and none has a value
checkConditionalTime(tr, key) ==
    ~AnyNotApplicable(tr[key])
        /\ tr[key].emt1 = EMPTY /\ tr[key].emt2 = EMPTY /\ tr[key].emt3 = EMPTY

\* components/PreviewModal.tsx: missingFields, as the set of fields pushed
missingFields(basic, technical, tr) ==
    { f \in RequiredBasicInfo : basic[f] = "" }
    \cup { f \in RequiredTechnicalInfo : technical[f] = "" }
    \cup { key \in { "found", "contact", "ohcaJudgment", "cprStart", "powerOn",
                     "padsOn", "firstMed", "aedOff" } : checkTime(tr, key) }
    \cup { key \in { "firstVentilation", "mcprSetup", "airway" } :
              checkConditionalTime(tr, key) }

\* components/PreviewModal.tsx: isValid
isValid(basic, technical, tr) == missingFields(basic, technical, tr) = {}

REQUIRED_TIME_FIELDS ==
    { "found", "contact", "ohcaJudgment", "cprStart", "powerOn", "padsOn",
      "firstVentilation", "mcprSetup", "firstMed", "aedOff" }

\* the preview with an overall CCF: missingFields
missingFields_part001(tr, cal) ==
    { key \in REQUIRED_TIME_FIELDS :
        /\ ~(key = "mcprSetup" /\ isNA(tr.mcprSetup))
        /\ ~(key = "firstVentilation" /\ isNA(tr.firstVentilation))
        /\ calculateCorrectedAedTime(tr[key], cal) = Null }

\* the preview with an overall CCF: hasNegativeValues
hasNegativeValues(tr, cal, ir) ==
    LET t == getTimes(tr, cal)
        isMcprNA == isNA(tr.mcprSetup)
        values ==
            { getSafeDuration(t.ohcaJudgment, t.cprStart),
              getSafeDuration(t.ohcaJudgment, t.padsOn),
              delayUnlessNA(isNA(tr.firstVentilation), t, "firstVentilation"),
              getSafeDuration(t.ohcaJudgment, t.firstMed),
              delayUnlessNA(isNA(tr.airway), t, "airway"),
              timeInCompPreAed(t, calculateInterruption(ir.beforePads)),
              timeInCompPreMcpr(t, isMcprNA, calculateInterruption(ir.beforeMcpr)),
              timeInCompPostMcpr(t, isMcprNA) }
    IN  \E v \in values : v # Null /\ IsNum(v) /\ v.v < 0

\* the preview with an overall CCF: canSubmit
canSubmit(tr, cal, ir) ==
    /\ ~roscMismatch(getTimes(tr, cal))
    /\ ~hasNegativeValues(tr, cal, ir)
    /\ missingFields_part001(tr, cal) = {}

\* the basic and technical information with every required field filled
CompleteBasicInfo ==
    [f \in DOMAIN INITIAL_STATE.basicInfo |->
        IF f \in RequiredBasicInfo THEN "text" ELSE INITIAL_STATE.basicInfo[f]]

CompleteTechnicalInfo ==
    [f \in DOMAIN INITIAL_STATE.technicalInfo |->
        IF f \in RequiredTechnicalInfo THEN "text" ELSE INITIAL_STATE.technicalInfo[f]]

\* a case recorded by observer 1 with every required instant, in order
CompleteRecord ==
    [found            |-> ByObservers(Iso(0, 9, 55, 0), EMPTY),
     contact          |-> ByObservers(Iso(0, 9, 58, 0), EMPTY),
     ohcaJudgment     |-> ByObservers(Iso(0, 10, 0, 0), EMPTY),
     cprStart         |-> ByObservers(Iso(0, 10, 0, 10), EMPTY),
     powerOn          |-> Iso(0, 10, 0, 30),
     padsOn           |-> ByObservers(Iso(0, 10, 1, 0), EMPTY),
     firstVentilation |-> ByObservers(Iso(0, 10, 2, 0), EMPTY),
     mcprSetup        |-> ByObservers(Iso(0, 10, 3, 0), EMPTY),
     firstMed         |-> ByObservers(Iso(0, 10, 4, 0), EMPTY),
     airway           |-> ByObservers(Iso(0, 10, 4, 30), EMPTY),
     aedOff           |-> Iso(0, 10, 5, 0),
     rosc             |-> NoObservation,
     firstShock       |-> EMPTY]

\* the complete case; MCPR flagged as not performed; the first medication
\* not entered; CPR started before the judgment; ROSC 5 min after AED-off
SubmitRecords ==
    { CompleteRecord,
      [CompleteRecord EXCEPT !.mcprSetup = ByObservers(NOT_APPLICABLE, EMPTY)],
      [CompleteRecord EXCEPT !.firstMed = NoObservation],
      [CompleteRecord EXCEPT !.cprStart = ByObservers(Iso(0, 9, 59, 50), EMPTY)],
      [CompleteRecord EXCEPT !.rosc = ByObservers(Iso(0, 10, 10, 0), EMPTY)] }

InitSubmit ==
    /\ pc \in PreviewCopies
    /\ basicInfo \in { CompleteBasicInfo, [CompleteBasicInfo EXCEPT !.reviewer = ""] }
    /\ technicalInfo \in { CompleteTechnicalInfo,
                           [CompleteTechnicalInfo EXCEPT !.initialRhythm = ""] }
    /\ timeRecords \in SubmitRecords
    /\ calibration = INITIAL_STATE.calibration
    /\ interruptionRecords = INITIAL_STATE.interruptionRecords
    /\ activeTab = 0 /\ showPreview = FALSE
    /\ correctedTimes = <<>> /\ flags = {}
    /\ times = <<>> /\ metrics = <<>>
    /\ recordData = EMPTY /\ corrected = Pending
    /\ CalibrationIdle /\ DurationIdle /\ BoundaryIdle /\ InterruptionIdle
    /\ ValidatorIdle /\ StorageIdle /\ SubmitIdle

\* what no action of the submission changes
submitFrame ==
    <<pc, activeTab, correctedTimes, flags, timeRecords, calibration,
      interruptionRecords, times, metrics, recordData, corrected,
      calibrationVars, durationVars, boundaryVars, interruptionVars,
      validatorVars, formVars, storageVars>>

\* the header's button is clicked: a new instance of the preview is mounted
setShowPreview ==
    /\ pc \in PreviewCopies
    /\ ~showPreview /\ instance < MaxOpens
    /\ showPreview' = TRUE
    /\ instance' = instance + 1
    /\ isSubmitting' = FALSE /\ isSuccess' = FALSE /\ errorMessage' = ""
    /\ UNCHANGED <<requests, submitFrame>>

\* components/PreviewModal.tsx: the enabled submit button is clicked
handleSubmit ==
    /\ pc = PreviewModalTsx
    /\ showPreview /\ ~isSuccess
    /\ ~isSubmitting /\ isValid(basicInfo, technicalInfo, timeRecords)
    /\ isSubmitting' = TRUE
    /\ requests' = requests \cup { instance }
    /\ UNCHANGED <<showPreview, isSuccess, errorMessage, instance, submitFrame>>

\* the preview with an overall CCF: the enabled submit button is clicked
handleConfirm ==
    /\ pc = PreviewModalPart
    /\ showPreview /\ ~isSuccess
    /\ ~isSubmitting /\ canSubmit(timeRecords, calibration, interruptionRecords)
    /\ isSubmitting' = TRUE
    /\ errorMessage' = ""
    /\ requests' = requests \cup { instance }
    /\ UNCHANGED <<showPreview, isSuccess, instance, submitFrame>>

\* the instance that issued request r is the mounted one
Mounted(r) == showPreview /\ r = instance

\* a fetch resolves: the code after the await runs
resolveFetch ==
    /\ pc \in PreviewCopies
    /\ \E r \in requests :
          /\ requests' = requests \ { r }
          /\ IF Mounted(r)
             THEN isSubmitting' = FALSE /\ isSuccess' = TRUE
             ELSE UNCHANGED <<isSubmitting, isSuccess>>
    /\ UNCHANGED <<showPreview, errorMessage, instance, submitFrame>>

\* a fetch rejects: the catch block runs
rejectFetch ==
    /\ pc \in PreviewCopies
    /\ \E r \in requests :
          /\ requests' = requests \ { r }
          /\ IF Mounted(r)
             THEN isSubmitting' = FALSE /\ errorMessage' = "upload failed"
             ELSE UNCHANGED <<isSubmitting, errorMessage>>
    /\ UNCHANGED <<showPreview, isSuccess, instance, submitFrame>>

\* the footer's close button: components/PreviewModal.tsx disables it while
\* submitting, the other copy does not
closeByFooter ==
    /\ pc \in PreviewCopies
    /\ showPreview /\ ~isSuccess
    /\ pc = PreviewModalTsx => ~isSubmitting
    /\ showPreview' = FALSE
    /\ isSubmitting' = FALSE /\ isSuccess' = FALSE /\ errorMessage' = ""
    /\ UNCHANGED <<instance, requests, submitFrame>>

\* the header's X button, or the close button of the success view
onClose ==
    /\ pc \in PreviewCopies
    /\ showPreview
    /\ showPreview' = FALSE
    /\ isSubmitting' = FALSE /\ isSuccess' = FALSE /\ errorMessage' = ""
    /\ UNCHANGED <<instance, requests, submitFrame>>

NextSubmit ==
    \/ setShowPreview \/ handleSubmit \/ handleConfirm
    \/ resolveFetch \/ rejectFetch \/ closeByFooter \/ onClose

SpecSubmit == InitSubmit /\ [][NextSubmit]_vars

\* the missing-field list of the mounted copy of the preview
MissingNow ==
    IF pc = PreviewModalTsx
    THEN missingFields(basicInfo, technicalInfo, timeRecords)
    ELSE missingFields_part001(timeRecords, calibration)

\* C29: at every moment at most one submission request is outstanding, and
\* none is outstanding for a snapshot whose missing-field list is not empty.
C29_AtMostOneRequest ==
    /\ Cardinality(requests) <= 1
    /\ requests # {} => MissingNow = {}

\* C30: every settling of a request leaves isSubmitting false and exactly
\* one outcome: a resolution leaves isSuccess set and no error message, a
\* rejection leaves the error message set and isSuccess false, and after a
\* rejection the submit button is enabled again.
C30_OneOutcomePerSubmission ==
    [][/\ resolveFetch => (~isSubmitting' /\ isSuccess' /\ errorMessage' = "")
       /\ rejectFetch => (/\ ~isSubmitting' /\ ~isSuccess' /\ errorMessage' # ""
                          /\ showPreview')]_vars

(***************************************************************************)
(* The engine as a whole: any one of the computations above.               *)
(***************************************************************************)
Init ==
    \/ InitCalibration
    \/ InitResolver
    \/ InitDuration
    \/ InitBoundary
    \/ InitInterruption
    \/ InitMetrics
    \/ InitValidator
    \/ InitLoad
    \/ InitSession
    \/ InitSubmit

Next ==
    \/ renderRow
    \/ getT
    \/ totalDuration
    \/ callGetSafeDuration
    \/ callCalculateMMSSSeconds
    \/ callCalculateSeconds
    \/ appendInterval
    \/ PreviewModal
    \/ PreviewModal_withOverall
    \/ callGetValidationError
    \/ callGetValidationError_tsx
    \/ callRoscMismatch
    \/ loadEffect
    \/ setActiveTab
    \/ updateCalibration
    \/ updateTimeRecord
    \/ handleToggleNA
    \/ updateInterruption
    \/ openPreview
    \/ rerenderPreview
    \/ closePreview
    \/ setShowPreview
    \/ handleSubmit
    \/ handleConfirm
    \/ resolveFetch
    \/ rejectFetch
    \/ closeByFooter
    \/ onClose

Spec == Init /\ [][Next]_vars

====
